---------------------------- MODULE Spec2Model ----------------------------
(***************************************************************************)
(* WriteOff: the deductibility reply parser of src/lib/openai/analysis.ts, *)
(* the transaction ingestion loop and the bank functions of                *)
(* lib/plaid/transactions (src/unnamed/part_000), analyzeAllTransactions   *)
(* and generateTaxSummary, and the route handlers GET /api/transactions    *)
(* and POST exchange-public-token; the ingestion loop without             *)
(* classification of src/unnamed/part_001, getUser with its two clients,   *)
(* and in the browser the transaction list of the protected page           *)
(* (part_002, part_004) and the bank connection of the dashboard in its    *)
(* two versions (part_003).                                                *)
(*                                                                         *)
(* A string is a sequence of one-character strings.  A deduction score is  *)
(* kept in hundredths (0.85 is 85), so that "/ 100" of the source is the   *)
(* unit of the number and no fraction is needed.  A value that may be null *)
(* is a sequence of length 0 (null) or 1 (the value).                      *)
(***************************************************************************)
EXTENDS Integers, Sequences, FiniteSets, TLC

VARIABLES
    calls,        \* the calls of analyzeTransactionDeductibility made so far, in order:
                  \* what the completion call gave and what the function did with it
    lastIndex,    \* lastIndex left on the /^yes\b/i object by the latest call
    users,        \* table users: the rows {id, plaid_token}
    accounts,     \* table accounts: the rows {account_id, user_id, last_cursor}
    transactions, \* table transactions: the rows handed to insert that were stored
    profiles,     \* table user_profiles: the rows {user_id, plaid_token}
    fetch,        \* the running fetchTransactions: where it stands and its locals
    observed,     \* what the running operation did so far
    op,           \* the running operation other than fetchTransactions: which
                  \* function or route handler, its argument and what it returned
    runs,         \* the number of operations that ran to their end before this one
    page,         \* the protected page in the browser: its transaction list, the
                  \* transaction being edited, the screen, the submits under way
    dash          \* the dashboard in the browser: its bank-connection state

parserVars == <<calls, lastIndex>>
storageVars == <<users, accounts, transactions, profiles>>
fetchVars == <<fetch, observed>>
vars ==
    <<calls, lastIndex, users, accounts, transactions, profiles, fetch, observed, op, runs,
      page, dash>>

----------------------------------------------------------------------------
(* Characters *)

LowerCase ==
    <<"a","b","c","d","e","f","g","h","i","j","k","l","m",
      "n","o","p","q","r","s","t","u","v","w","x","y","z">>
UpperCase ==
    <<"A","B","C","D","E","F","G","H","I","J","K","L","M",
      "N","O","P","Q","R","S","T","U","V","W","X","Y","Z">>
DecimalDigits == <<"0","1","2","3","4","5","6","7","8","9">>

IsLower(c) == \E i \in 1..Len(LowerCase) : LowerCase[i] = c
IsUpper(c) == \E i \in 1..Len(UpperCase) : UpperCase[i] = c
\* \d
DigitChars == {DecimalDigits[i] : i \in 1..Len(DecimalDigits)}
IsDigit(c) == c \in DigitChars
DigitValue(c) == (CHOOSE i \in 1..Len(DecimalDigits) : DecimalDigits[i] = c) - 1
\* \s, and what String.prototype.trim strips
SpaceChars == {" ", "\t", "\n", "\r"}
IsSpace(c) == c \in SpaceChars
\* what . does not match
IsLineTerminator(c) == c \in {"\n", "\r"}
\* \w
WordChars ==
    {LowerCase[i] : i \in 1..Len(LowerCase)} \cup {UpperCase[i] : i \in 1..Len(UpperCase)}
        \cup DigitChars \cup {"_"}
IsWordChar(c) == c \in WordChars
\* [,], the white space forgotten
CommaOnly == {","}

\* [,\s]
SeparatorChars == {","} \cup SpaceChars

toUpperCase(c) ==
    IF IsLower(c) THEN UpperCase[CHOOSE i \in 1..Len(LowerCase) : LowerCase[i] = c] ELSE c
toLowerCase(c) ==
    IF IsUpper(c) THEN LowerCase[CHOOSE i \in 1..Len(UpperCase) : UpperCase[i] = c] ELSE c

Max(S) == CHOOSE x \in S : \A y \in S : y <= x
Min(S) == CHOOSE x \in S : \A y \in S : x <= y

\* the value or null
Null == <<>>
Some(x) == <<x>>

\* the element of a set of one
Only(S) == CHOOSE x \in S : TRUE

\* The length of the longest run of characters of the class that starts at s[i].
RunLen(s, i, class) ==
    Max({k \in 0..(IF i > Len(s) THEN 0 ELSE Len(s) - i + 1) :
            \A j \in i..(i + k - 1) : s[j] \in class})

\* String.prototype.trim
trim(s) ==
    LET lead == RunLen(s, 1, SpaceChars)
    IN  IF lead = Len(s) THEN <<>>
        ELSE SubSeq(s, lead + 1, Max({j \in 1..Len(s) : ~IsSpace(s[j])}))

\* parseInt(digits, 10) of a string of decimal digits
RECURSIVE parseInt(_)
parseInt(ds) ==
    IF ds = <<>> THEN 0
    ELSE 10 * parseInt(SubSeq(ds, 1, Len(ds) - 1)) + DigitValue(ds[Len(ds)])

\* s starts with word w, letter case ignored (the i flag)
StartsWithIgnoreCase(s, w) ==
    /\ Len(s) >= Len(w)
    /\ \A j \in 1..Len(w) : toLowerCase(s[j]) = w[j]

----------------------------------------------------------------------------
(* The regular expressions of analyzeTransactionDeductibility.  A match is *)
(* null or the array of JavaScript: [0] the whole match, [1].. the groups. *)
(* Each is the first match in the engine's backtracking order: a greedy    *)
(* quantifier tries its longest run first, a lazy one its shortest.        *)

\* one /^yes\b/gi object kept at module level and shared by all calls
YesRegexHoisted == TRUE

\* The regex literal /^yes\b/i carries no g or y flag and is evaluated anew
\* on every call: its test() starts at 0 whatever an earlier call left behind.
YesRegexShared == FALSE

\* /^yes/i, the word boundary forgotten
YesTestNoBoundary(t, from) ==
    /\ from = 0
    /\ StartsWithIgnoreCase(t, <<"y","e","s">>)

\* /^yes\b/i.test(t), started at index `from`: ^ matches at index 0 only.
YesTest(t, from) ==
    /\ from = 0
    /\ StartsWithIgnoreCase(t, <<"y","e","s">>)
    /\ (Len(t) = 3 \/ ~IsWordChar(t[4]))

\* [,\s]+(\d{1,3})% right after s[b]: the pairs <<c, d>> with s[b+1..c] the
\* separators, s[c+1..c+d] the digits and s[c+d+1] the percent sign.
StrictTail(s, b) ==
    {t \in ((b + 1)..(b + RunLen(s, b + 1, SeparatorChars))) \X (1..3) :
        /\ t[1] + t[2] + 1 <= Len(s)
        /\ \A j \in (t[1] + 1)..(t[1] + t[2]) : IsDigit(s[j])
        /\ s[t[1] + t[2] + 1] = "%"}

\* content.match(/^(yes|no)[,\s]+(.+?)[,\s]+(\d{1,3})%/i)
StrictMatch(s) ==
    LET h == IF StartsWithIgnoreCase(s, <<"y","e","s">>) THEN 3
             ELSE IF StartsWithIgnoreCase(s, <<"n","o">>) THEN 2 ELSE 0
        \* s[h+1..a] is the first separator run, s[a+1..b] the reason
        Ok(a, b) == /\ \A j \in (a + 1)..b : ~IsLineTerminator(s[j])
                    /\ StrictTail(s, b) # {}
        As == {a \in (h + 1)..(h + RunLen(s, h + 1, SeparatorChars)) :
                  \E b \in (a + 1)..Len(s) : Ok(a, b)}
    IN  IF h = 0 \/ As = {} THEN Null
        ELSE LET a == Max(As)
                 b == Min({x \in (a + 1)..Len(s) : Ok(a, x)})
                 c == Max({t[1] : t \in StrictTail(s, b)})
                 d == Max({t[2] : t \in {u \in StrictTail(s, b) : u[1] = c}})
             IN  [i \in 0..3 |->
                    CASE i = 0 -> SubSeq(s, 1, c + d + 1)
                      [] i = 1 -> SubSeq(s, 1, h)
                      [] i = 2 -> SubSeq(s, a + 1, b)
                      [] i = 3 -> SubSeq(s, c + 1, c + d)]

\* (\d{1,3})% starting at s[i], the \s* forgotten
ScoreAtAdjacent(s, i) ==
    {d \in 1..3 :
        /\ i + d <= Len(s)
        /\ \A j \in i..(i + d - 1) : IsDigit(s[j])
        /\ s[i + d] = "%"}

\* (\d{1,3})\s*% starting at s[i]: the digit counts d that match there.
ScoreAt(s, i) ==
    {d \in 1..3 :
        /\ i + d - 1 <= Len(s)
        /\ \A j \in i..(i + d - 1) : IsDigit(s[j])
        /\ \E w \in 0..RunLen(s, i + d, SpaceChars) :
              i + d + w <= Len(s) /\ s[i + d + w] = "%"}

\* content.match(/(\d{1,3})\s*%/): the leftmost match
ScoreMatch(s) ==
    LET starts == {i \in 1..Len(s) : ScoreAt(s, i) # {}}
    IN  IF starts = {} THEN Null
        ELSE LET i == Min(starts)
                 d == Max(ScoreAt(s, i))
                 w == RunLen(s, i + d, SpaceChars)
             IN  [k \in 0..1 |->
                    IF k = 0 THEN SubSeq(s, i, i + d + w) ELSE SubSeq(s, i, i + d - 1)]

\* ,\s*\d{1,3}% right after s[b]
ReasonTail(s, b) ==
    /\ b + 1 <= Len(s)
    /\ s[b + 1] = ","
    /\ \E w \in 0..RunLen(s, b + 2, SpaceChars), d \in 1..3 :
          /\ b + 2 + w + d <= Len(s)
          /\ \A j \in (b + 2 + w)..(b + 1 + w + d) : IsDigit(s[j])
          /\ s[b + 2 + w + d] = "%"

\* /^[^,]+,\s*(.+),\s*\d{1,3}%/, the reason greedy
ReasonMatchGreedy(s) ==
    LET commas == {j \in 1..Len(s) : s[j] = ","}
        p == IF commas = {} THEN 0 ELSE Min(commas)
        Ok(w, b) == /\ \A j \in (p + w + 1)..b : ~IsLineTerminator(s[j])
                    /\ ReasonTail(s, b)
        Ws == {w \in 0..RunLen(s, p + 1, SpaceChars) :
                  \E b \in (p + w + 1)..Len(s) : Ok(w, b)}
    IN  IF p < 2 \/ Ws = {} THEN Null
        ELSE LET w == Max(Ws)
                 b == Max({x \in (p + w + 1)..Len(s) : Ok(w, x)})
                 e == RunLen(s, b + 2, SpaceChars)
                 d == RunLen(s, b + 2 + e, DigitChars)
             IN  [k \in 0..1 |->
                    IF k = 0 THEN SubSeq(s, 1, b + 2 + e + d)
                    ELSE SubSeq(s, p + w + 1, b)]

\* content.match(/^[^,]+,\s*(.+?),\s*\d{1,3}%/)
ReasonMatch(s) ==
    LET commas == {j \in 1..Len(s) : s[j] = ","}
        p == IF commas = {} THEN 0 ELSE Min(commas)
        \* s[p+1..p+w] is the white space after the first comma, s[p+w+1..b] the reason
        Ok(w, b) == /\ \A j \in (p + w + 1)..b : ~IsLineTerminator(s[j])
                    /\ ReasonTail(s, b)
        Ws == {w \in 0..RunLen(s, p + 1, SpaceChars) :
                  \E b \in (p + w + 1)..Len(s) : Ok(w, b)}
    IN  IF p < 2 \/ Ws = {} THEN Null
        ELSE LET w == Max(Ws)
                 b == Min({x \in (p + w + 1)..Len(s) : Ok(w, x)})
                 \* s[b+1] is the comma, then e white space and d digits
                 e == RunLen(s, b + 2, SpaceChars)
                 d == RunLen(s, b + 2 + e, DigitChars)
             IN  [k \in 0..1 |->
                    IF k = 0 THEN SubSeq(s, 1, b + 2 + e + d)
                    ELSE SubSeq(s, p + w + 1, b)]

----------------------------------------------------------------------------
(* analyzeTransactionDeductibility *)

NoReasonProvided ==
    <<"N","o"," ","r","e","a","s","o","n"," ","p","r","o","v","i","d","e","d">>

\* Math.min(100, Math.max(0, n)), in hundredths once divided by 100
ClampPercent(n) ==
    LET lo == IF n < 0 THEN 0 ELSE n
    IN  IF lo > 100 THEN 100 ELSE lo

\* the reason is returned as it was extracted
AsExtracted(reason) == reason

\* reason.charAt(0).toUpperCase() + reason.slice(1), for a non-empty reason
Capitalize(reason) ==
    IF Len(reason) > 0
    THEN <<toUpperCase(reason[1])>> \o SubSeq(reason, 2, Len(reason))
    ELSE reason

\* The completion call: it throws (network, quota), or returns a response whose
\* choices are empty or hold one message with a content string or null.
Thrown == [status |-> "throws", choices |-> <<>>]
Returned(choices) == [status |-> "ok", choices |-> choices]

\* response.choices[0].message.content || ''
ContentOf(resp) ==
    IF resp.choices[1].content = Null THEN <<>> ELSE resp.choices[1].content[1]

\* the body of the try block once the response is there
ParseReply(content, from) ==
    Only({ LET reason ==
                   IF match # Null THEN trim(match[2])
                   ELSE IF reasonMatch # Null THEN trim(reasonMatch[1])
                   ELSE NoReasonProvided
               deduction_score ==
                   IF match # Null THEN Some(ClampPercent(parseInt(match[3])))
                   ELSE IF scoreMatch # Null
                        THEN Some(ClampPercent(parseInt(scoreMatch[1])))
                   ELSE Null
           IN  [success |-> TRUE,
                is_deductible |-> isYes,
                deductible_reason |-> Capitalize(reason),
                deduction_score |-> deduction_score] :
           isYes \in {YesTest(trim(content), from)},
           match \in {StrictMatch(content)},
           scoreMatch \in {ScoreMatch(content)},
           reasonMatch \in {ReasonMatch(content)} })

\* the catch block: { success: false, error }
AnalysisFailure == [success |-> FALSE, error |-> "error"]

\* The try block: it throws when the completion call throws, and when the
\* response has no choice (response.choices[0] is undefined, and reading
\* .message of it throws); otherwise it returns the parse.
TryAnalyze(resp, from) ==
    IF resp.status = "throws" \/ resp.choices = <<>>
    THEN [threw |-> TRUE, value |-> AnalysisFailure]
    ELSE [threw |-> FALSE, value |-> ParseReply(ContentOf(resp), from)]

\* the function with a catch block that rethrows
AnalyzeRethrowing(resp, from) == TryAnalyze(resp, from)

\* analyzeTransactionDeductibility: how the call ends (threw) and what it returns
analyzeTransactionDeductibility(resp, from) ==
    Only({ IF try.threw THEN [threw |-> FALSE, value |-> AnalysisFailure] ELSE try :
           try \in {TryAnalyze(resp, from)} })

\* where the test() of the call starts
RegexStart == IF YesRegexShared THEN lastIndex ELSE 0

\* lastIndex of the /^yes\b/i object after the call
LastIndexAfter(resp, from) ==
    IF YesRegexShared /\ resp.status = "ok" /\ resp.choices # <<>>
          /\ YesTest(trim(ContentOf(resp)), from)
    THEN 3 ELSE 0

----------------------------------------------------------------------------
(* The replies the parser is run on: a head, at most MaxBodyPieces pieces  *)
(* of text and a tail, and the replies the specification names.            *)

MaxBodyPieces == 3
MaxCalls == 3

Heads ==
    { <<>>,
      <<"y","e","s">>,
      <<"Y","E","S">>,
      <<"N","o">>,
      <<" ","Y","e","s">>,
      <<"o","k">> }

BodyPieces ==
    { <<",">>,
      <<" ">>,
      <<"a">>,
      <<"b",","," ","c">>,
      <<"d",",","3","%">>,
      <<"e"," ","5","%"," ","f">> }

Tails ==
    { <<>>,
      <<"5">>,
      <<"5","%">>,
      <<"5"," ","%">>,
      <<"1","5","0","%">>,
      <<"1","0","5","0","%">> }

RECURSIVE BodiesUpTo(_)
BodiesUpTo(k) ==
    IF k = 0 THEN { <<>> }
    ELSE LET shorter == BodiesUpTo(k - 1)
         IN  shorter \cup {b \o piece : b \in shorter, piece \in BodyPieces}

OfficeSupplies ==
    <<"Y","e","s",","," ","O","f","f","i","c","e"," ","s","u","p","p","l","i","e","s"," ",
      "f","o","r"," ","b","u","s","i","n","e","s","s"," ","o","p","e","r","a","t","i","o","n","s",
      ","," ","8","5","%">>
PersonalEntertainment ==
    <<"N","o",","," ","P","e","r","s","o","n","a","l"," ","e","n","t","e","r","t","a","i","n",
      "m","e","n","t"," ","e","x","p","e","n","s","e",","," ","9","5","%">>
SeemsFine ==
    <<"y","e","s"," ","t","h","i","s"," ","s","e","e","m","s"," ","f","i","n","e"," ","6","0","%">>
HomeOffice ==
    <<"Y","e","s",","," ","h","o","m","e"," ","o","f","f","i","c","e"," ","5","0","%"," ",
      "o","f"," ","r","e","n","t",","," ","8","5","%">>
TwoLines ==
    <<"Y","e","s",","," ","r","e","n","t","\n","a","n","d"," ","p","o","w","e","r",","," ","7","0","%">>

Examples == {OfficeSupplies, PersonalEntertainment, SeemsFine, HomeOffice, TwoLines}

Replies ==
    Examples \cup
    {h \o b \o t : h \in Heads, b \in BodiesUpTo(MaxBodyPieces), t \in Tails}

Reply(text) == Returned(<<[content |-> Some(text)]>>)

\* what the completion call can give
Responses ==
    {Thrown, Returned(<<>>), Returned(<<[content |-> Null]>>)}
        \cup {Reply(r) : r \in Replies}

\* the replies of the runs that repeat
RepeatResponses ==
    {Thrown, Returned(<<[content |-> Null]>>)}
        \cup {Reply(r) : r \in Examples \cup {<<"y","e","s">>, <<"Y","E","S",","," ","a",","," ","5","%">>}}

----------------------------------------------------------------------------
(* Storage.  A query either works or comes back with an error and no data; *)
(* it does not throw.                                                      *)

MaxAccounts == 2
MaxTransactions == 2

UserIds == {"u1", "u2", "u3"}
AccountIds == {"acc1", "acc2"}

\* u1 has linked a bank, u2 has not, u3 has no row
InitialUsers ==
    { [id |-> "u1", plaid_token |-> Some("access-u1")],
      [id |-> "u2", plaid_token |-> Null] }

QueryError == [data |-> Null, error |-> Some("error")]

\* getUser: the row of the user, or no data and an error (no row, or the
\* query failed on both clients)
getUser(userId, ok) ==
    IF ok /\ \E r \in users : r.id = userId
    THEN [data |-> Some(CHOOSE r \in users : r.id = userId), error |-> Null]
    ELSE QueryError

\* getAccounts: the accounts of the user
getAccounts(userId, ok) ==
    IF ok
    THEN [data |-> Some({r \in accounts : r.user_id = userId}), error |-> Null]
    ELSE QueryError

\* addAccount: the table after the insert of {account_id, user_id}
addAccount(account, ok) ==
    IF ok
    THEN accounts \cup {[account_id |-> account.account_id,
                         user_id |-> account.user_id,
                         last_cursor |-> Null]}
    ELSE accounts

\* updateAccount: the table after the update of last_cursor where account_id matches
updateAccount(accountId, updates, ok) ==
    IF ok
    THEN {IF r.account_id = accountId
          THEN [r EXCEPT !.last_cursor = Some(updates.last_cursor)]
          ELSE r : r \in accounts}
    ELSE accounts

\* addTransaction: the table after insert([transactionData]); an error is
\* logged and returned in the result, not thrown
addTransaction(transactionData, ok) ==
    IF ok THEN transactions \cup {transactionData} ELSE transactions

\* getTransactions: the transactions joined to the accounts of the user
\* (accounts!inner, accounts.user_id = userId)
getTransactions(userId, ok) ==
    IF ok
    THEN [data |-> Some({t \in transactions :
                            \E a \in accounts : /\ a.account_id = t.account_id
                                                /\ a.user_id = userId}),
          error |-> Null]
    ELSE QueryError

\* updateTransaction: the rows with this trans_id get the fields of updates; a
\* field that is undefined (null here) is left as it is
updateTransaction(transactionId, updates, ok) ==
    IF ok
    THEN {IF r.trans_id = transactionId
          THEN [r EXCEPT !.is_deductible = updates.is_deductible,
                         !.deductible_reason = updates.deductible_reason,
                         !.deduction_score = IF updates.deduction_score = Null THEN @
                                             ELSE updates.deduction_score]
          ELSE r : r \in transactions}
    ELSE transactions

\* update({plaid_token}).eq('id', userId) on users
updateUserToken(userId, token, ok) ==
    IF ok
    THEN {IF r.id = userId THEN [r EXCEPT !.plaid_token = Some(token)] ELSE r : r \in users}
    ELSE users

\* upsert({user_id, plaid_token}) on user_profiles
upsertProfile(userId, token, ok) ==
    IF ok
    THEN {r \in profiles : r.user_id # userId}
            \cup {[user_id |-> userId, plaid_token |-> Some(token)]}
    ELSE profiles

\* updateUserProfile(userId, {plaid_token}): the row of the user gets the token
updateUserProfile(userId, token, ok) ==
    IF ok
    THEN {IF r.user_id = userId THEN [r EXCEPT !.plaid_token = Some(token)] ELSE r :
             r \in profiles}
    ELSE profiles

----------------------------------------------------------------------------
(* The bank (plaidClient) and the completion client, as fetchTransactions  *)
(* sees them.                                                              *)

\* the lists of at most n members of S, none of them twice
ListsUpTo(S, n) ==
    {q \in UNION {[1..k -> S] : k \in 0..n} :
        \A i, j \in 1..Len(q) : q[i] = q[j] => i = j}

BankTransactions ==
    { [transaction_id |-> "t1", date |-> "2024-03-01", amount |-> 0 - 12,
       merchant_name |-> Null, category |-> Null],
      [transaction_id |-> "t2", date |-> "2024-03-02", amount |-> 30,
       merchant_name |-> Some(<<"C","a","f","e">>),
       category |-> Some(<< <<"F","o","o","d">>, <<"B","a","r">> >>)] }

BankThrows == [status |-> "throws"]

\* accountsGet: it throws, or lists accounts, each of them once
AccountsResponses ==
    {BankThrows} \cup
    {[status |-> "ok", accounts |-> as] : as \in ListsUpTo(AccountIds, MaxAccounts)}

\* transactionsGet for one account: it throws, or lists transactions, each of
\* them once, with a request id or without
TransactionsResponses ==
    {BankThrows} \cup
    {[status |-> "ok", transactions |-> ts, request_id |-> rid] :
        ts \in ListsUpTo(BankTransactions, MaxTransactions),
        rid \in {Null, Some("req-1")}}

\* what the completion call gives during ingestion
IngestionResponses ==
    { Thrown, Reply(<<"Y","e","s",","," ","a",","," ","8","5","%">>) }

\* The call of analyzeTransactionDeductibility throws at its caller.  The
\* function catches what its try block throws; the caller guards the call with
\* a catch of its own all the same, and this outcome exercises it.
Escapes == [status |-> "escapes", choices |-> <<>>]

----------------------------------------------------------------------------
(* fetchTransactions *)

UnknownMerchant ==
    <<"U","n","k","n","o","w","n"," ","M","e","r","c","h","a","n","t">>
Uncategorized ==
    <<"U","n","c","a","t","e","g","o","r","i","z","e","d">>
AnalysisFailedReason ==
    <<"A","n","a","l","y","s","i","s"," ","f","a","i","l","e","d"," ","-"," ",
      "r","e","q","u","i","r","e","s"," ","m","a","n","u","a","l"," ","r","e","v","i","e","w">>
AnalysisErrorReason ==
    <<"A","n","a","l","y","s","i","s"," ","e","r","r","o","r"," ","-"," ",
      "r","e","q","u","i","r","e","s"," ","m","a","n","u","a","l"," ","r","e","v","i","e","w">>

\* Math.abs
Abs(n) == IF n < 0 THEN 0 - n ELSE n

\* Array.prototype.join(', ')
RECURSIVE Join(_)
Join(labels) ==
    IF labels = <<>> THEN <<>>
    ELSE IF Len(labels) = 1 THEN labels[1]
    ELSE labels[1] \o <<",", " ">> \o Join(Tail(labels))

\* value || fallback, for a string that may be null
OrElse(value, fallback) ==
    IF value = Null \/ value[1] = <<>> THEN fallback ELSE value[1]

\* the record built from a bank transaction before the analysis
TransactionData(txn, accountId) ==
    [trans_id |-> txn.transaction_id,
     account_id |-> accountId,
     date |-> txn.date,
     amount |-> Abs(txn.amount),
     merchant_name |-> OrElse(txn.merchant_name, UnknownMerchant),
     category |-> OrElse(IF txn.category = Null THEN Null ELSE Some(Join(txn.category[1])),
                         Uncategorized)]

ManualReview(reason) ==
    [is_deductible |-> FALSE, deductible_reason |-> reason, deduction_score |-> Some(0)]

\* a failed analysis drops the transaction's verdict fields altogether
NoVerdictOnFailure(data, out) ==
    IF ~out.threw /\ out.value.success
    THEN data @@ [is_deductible |-> out.value.is_deductible,
                  deductible_reason |-> out.value.deductible_reason,
                  deduction_score |-> out.value.deduction_score]
    ELSE data @@ [is_deductible |-> TRUE,
                  deductible_reason |-> <<>>,
                  deduction_score |-> Null]

\* Object.assign(transactionData, ...) in the three branches of the analysis
WithVerdict(data, out) ==
    IF out.threw THEN data @@ ManualReview(AnalysisErrorReason)
    ELSE IF out.value.success
    THEN data @@ [is_deductible |-> out.value.is_deductible,
                  deductible_reason |-> out.value.deductible_reason,
                  deduction_score |-> out.value.deduction_score]
    ELSE data @@ ManualReview(AnalysisFailedReason)

\* totalTransactions += 1, once for each account
CountRounds(total, n) == total + 1

\* totalTransactions += transactions.length
CountFetched(total, n) == total + n

NoData == [trans_id |-> ""]
NoResult == [success |-> FALSE, error |-> "pending"]

FetchIdle ==
    [pc |-> "idle", userId |-> "", plaid_token |-> Null, plaidAccounts |-> <<>>,
     account |-> 0, transactions |-> <<>>, request_id |-> Null, txn |-> 0,
     transactionData |-> NoData, totalTransactions |-> 0, result |-> NoResult]

NothingObserved ==
    [gate |-> FALSE, bankFailed |-> FALSE, bankTransactions |-> 0,
     failedAnalysis |-> FALSE, outcome |-> "none", addCalls |-> 0, bankCalls |-> 0,
     storageFailed |-> FALSE, addAccountCalls |-> 0]

\* a failure that carries the count reached so far
FailureWithCount(error) == [success |-> FALSE, error |-> error, count |-> 0]

Failure(error) == [success |-> FALSE, error |-> error]

OpIdle == [pc |-> "idle", fn |-> "", userId |-> "", result |-> NoResult, storageCalls |-> 0]

\* an operation starts when no other one is under way
Quiet == fetch.pc = "idle" /\ op.pc = "idle"

\* the gate looks at the user row only, not at its token
NoUserRow(user) == user = Null

\* !user?.plaid_token, for the data of getUser's result
NoPlaidToken(user) ==
    user = Null \/ user[1].plaid_token = Null \/ user[1].plaid_token = Some("")

\* fetchTransactions(userId) starts: getUser, and the token gate
FetchStart ==
    /\ Quiet
    /\ \E userId \in UserIds, ok \in BOOLEAN :
          LET user == getUser(userId, ok).data
          IN  IF NoPlaidToken(user)
              THEN /\ fetch' = [FetchIdle EXCEPT !.pc = "returned", !.userId = userId,
                                   !.result = Failure("No Plaid token found")]
                   /\ observed' = [NothingObserved EXCEPT !.storageFailed = ~ok]
              ELSE /\ fetch' = [FetchIdle EXCEPT !.pc = "accountsGet", !.userId = userId,
                                   !.plaid_token = user[1].plaid_token]
                   /\ observed' = [NothingObserved EXCEPT !.gate = TRUE]
    /\ UNCHANGED <<parserVars, storageVars, op, runs, page, dash>>

\* a call to the bank that throws skips the account and the loop goes on
SkipsAccount(f) ==
    [f EXCEPT !.account = IF f.pc = "transactionsGet" THEN @ + 1 ELSE @,
              !.pc = IF f.pc = "transactionsGet" /\ f.account < Len(f.plaidAccounts)
                     THEN "transactionsGet" ELSE "return"]

\* a call to the bank throws: the catch of the function returns the failure
BankThrew(f) == [f EXCEPT !.pc = "returned", !.result = Failure("bank error")]

\* await plaidClient.accountsGet, its answer one of responses
AccountsGetFrom(responses) ==
    /\ fetch.pc = "accountsGet"
    /\ \E resp \in responses :
          IF resp.status = "throws"
          THEN /\ fetch' = BankThrew(fetch)
               /\ observed' = [observed EXCEPT !.bankFailed = TRUE, !.bankCalls = @ + 1]
          ELSE /\ fetch' = [fetch EXCEPT !.plaidAccounts = resp.accounts, !.account = 1,
                               !.pc = IF resp.accounts = <<>> THEN "return"
                                      ELSE "storeAccounts"]
               /\ observed' = [observed EXCEPT !.bankCalls = @ + 1]
    /\ UNCHANGED <<parserVars, storageVars, op, runs, page, dash>>

AccountsGet == AccountsGetFrom(AccountsResponses)

\* one round of the first loop: getAccounts, and addAccount if the account is not there
StoreAccount ==
    /\ fetch.pc = "storeAccounts"
    /\ \E read \in BOOLEAN, write \in BOOLEAN :
          LET account == fetch.plaidAccounts[fetch.account]
              existingAccount == getAccounts(fetch.userId, read)
              accountExists ==
                  /\ existingAccount.data # Null
                  /\ \E acc \in existingAccount.data[1] : acc.account_id = account
          IN  /\ accounts' =
                     IF accountExists THEN accounts
                     ELSE addAccount([account_id |-> account, user_id |-> fetch.userId], write)
              /\ observed' = [observed EXCEPT
                                 !.storageFailed = @ \/ ~read \/ (~accountExists /\ ~write),
                                 !.addAccountCalls = IF accountExists THEN @ ELSE @ + 1]
    /\ fetch' = [fetch EXCEPT
                    !.account = IF fetch.account = Len(fetch.plaidAccounts) THEN 1
                                ELSE fetch.account + 1,
                    !.pc = IF fetch.account = Len(fetch.plaidAccounts)
                           THEN "transactionsGet" ELSE "storeAccounts"]
    /\ UNCHANGED <<parserVars, users, transactions, profiles, op, runs, page, dash>>

\* the cursor is written as soon as the page is there
CursorBeforeTransactions(fetched) == "updateAccount"

\* where a page of transactions leads: into the inner loop, or past it when
\* the page is empty
AfterFetch(fetched) == IF fetched = <<>> THEN "updateAccount" ELSE "analyze"

\* await plaidClient.transactionsGet for the account of this round, its answer
\* one of responses
TransactionsGetFrom(responses) ==
    /\ fetch.pc = "transactionsGet"
    /\ \E resp \in responses :
          IF resp.status = "throws"
          THEN /\ fetch' = BankThrew(fetch)
               /\ observed' = [observed EXCEPT !.bankFailed = TRUE, !.bankCalls = @ + 1]
          ELSE /\ fetch' = [fetch EXCEPT !.transactions = resp.transactions,
                               !.request_id = resp.request_id, !.txn = 1,
                               !.pc = AfterFetch(resp.transactions)]
               /\ observed' = [observed EXCEPT
                                  !.bankTransactions = @ + Len(resp.transactions),
                                  !.bankCalls = @ + 1]
    /\ UNCHANGED <<parserVars, storageVars, op, runs, page, dash>>

TransactionsGet == TransactionsGetFrom(TransactionsResponses)

\* the transaction record is built and analysed, and the verdict merged into it
AnalyzeTransaction ==
    /\ fetch.pc = "analyze"
    /\ \E resp \in IngestionResponses \cup {Escapes} :
        \E out \in {IF resp = Escapes THEN [threw |-> TRUE, value |-> AnalysisFailure]
                    ELSE analyzeTransactionDeductibility(resp, RegexStart)} :
          LET failed == out.threw \/ ~out.value.success
              data == TransactionData(fetch.transactions[fetch.txn],
                                      fetch.plaidAccounts[fetch.account])
          IN  /\ fetch' = [fetch EXCEPT !.transactionData = WithVerdict(data, out),
                              !.pc = "addTransaction"]
              /\ observed' = [observed EXCEPT
                                 !.outcome = IF out.threw THEN "threw"
                                             ELSE IF out.value.success THEN "ok" ELSE "failed",
                                 !.failedAnalysis = @ \/ failed]
              /\ lastIndex' = IF resp = Escapes THEN lastIndex
                              ELSE LastIndexAfter(resp, RegexStart)
    /\ UNCHANGED <<calls, storageVars, op, runs, page, dash>>

\* await addTransaction(transactionData), and on to the next transaction
AddTransaction ==
    /\ fetch.pc = "addTransaction"
    /\ \E ok \in BOOLEAN :
          /\ transactions' = addTransaction(fetch.transactionData, ok)
          /\ observed' = [observed EXCEPT !.addCalls = @ + 1,
                                          !.storageFailed = @ \/ ~ok]
    /\ fetch' = [fetch EXCEPT
                    !.txn = @ + 1,
                    !.pc = IF fetch.txn = Len(fetch.transactions) THEN "updateAccount"
                           ELSE "analyze"]
    /\ UNCHANGED <<parserVars, users, accounts, profiles, op, runs, page, dash>>

\* the end of a round of the second loop: the count, and the cursor if the
\* response carries a request id
UpdateAccount ==
    /\ fetch.pc = "updateAccount"
    /\ \E ok \in BOOLEAN :
          /\ accounts' =
                 IF fetch.request_id # Null
                 THEN updateAccount(fetch.plaidAccounts[fetch.account],
                                    [last_cursor |-> fetch.request_id[1]], ok)
                 ELSE accounts
          /\ observed' = [observed EXCEPT
                             !.storageFailed = @ \/ (fetch.request_id # Null /\ ~ok)]
    /\ fetch' = [fetch EXCEPT
                    !.totalTransactions =
                        CountFetched(@, Len(fetch.transactions)),
                    !.account = @ + 1,
                    !.pc = IF fetch.account = Len(fetch.plaidAccounts) THEN "return"
                           ELSE "transactionsGet"]
    /\ UNCHANGED <<parserVars, users, transactions, profiles, op, runs, page, dash>>

\* return { success: true, count: totalTransactions }
FetchReturn ==
    /\ fetch.pc = "return"
    /\ fetch' = [fetch EXCEPT !.pc = "returned",
                    !.result = [success |-> TRUE, count |-> fetch.totalTransactions]]
    /\ UNCHANGED <<parserVars, storageVars, observed, op, runs, page, dash>>

----------------------------------------------------------------------------
(* getAccountBalances and getInstitutionInfo *)

\* itemGet: it throws, or gives the item, with an institution id or without
ItemResponses ==
    {BankThrows} \cup
    {[status |-> "ok", institution_id |-> id] : id \in {Null, Some("ins_1")}}

\* institutionsGetById: it throws, or gives the institution
InstitutionResponses ==
    {BankThrows, [status |-> "ok", institution |-> "Bank One"]}

\* the operation op.fn returned result for userId
Returns(fn, userId, result) ==
    op' = [pc |-> "returned", fn |-> fn, userId |-> userId, result |-> result,
           storageCalls |-> 1]

\* what the operation did: it passed the token gate or not, made so many calls
\* to the bank, and the last of them threw or did not
Did(gate, bankCalls, bankFailed, storageFailed) ==
    observed' = [NothingObserved EXCEPT !.gate = gate, !.bankCalls = bankCalls,
                                        !.bankFailed = bankFailed,
                                        !.storageFailed = storageFailed]

\* getAccountBalances(userId)
GetAccountBalances ==
    /\ Quiet
    /\ \E userId \in UserIds, ok \in BOOLEAN, resp \in AccountsResponses :
        \E user \in {getUser(userId, ok).data} :
          IF NoPlaidToken(user)
          THEN /\ Returns("getAccountBalances", userId, Failure("No Plaid token found"))
               /\ Did(FALSE, 0, FALSE, ~ok)
          ELSE IF resp.status = "throws"
          THEN /\ Returns("getAccountBalances", userId, Failure("bank error"))
               /\ Did(TRUE, 1, TRUE, ~ok)
          ELSE /\ Returns("getAccountBalances", userId,
                          [success |-> TRUE, accounts |-> resp.accounts])
               /\ Did(TRUE, 1, FALSE, ~ok)
    /\ UNCHANGED <<parserVars, storageVars, fetch, runs, page, dash>>

\* getInstitutionInfo(userId)
GetInstitutionInfo ==
    /\ Quiet
    /\ \E userId \in UserIds, ok \in BOOLEAN,
          item \in ItemResponses, inst \in InstitutionResponses :
        \E user \in {getUser(userId, ok).data} :
          IF NoPlaidToken(user)
          THEN /\ Returns("getInstitutionInfo", userId, Failure("No Plaid token found"))
               /\ Did(FALSE, 0, FALSE, ~ok)
          ELSE IF item.status = "throws"
          THEN /\ Returns("getInstitutionInfo", userId, Failure("bank error"))
               /\ Did(TRUE, 1, TRUE, ~ok)
          ELSE IF item.institution_id = Null
          THEN /\ Returns("getInstitutionInfo", userId, Failure("No institution ID found"))
               /\ Did(TRUE, 1, FALSE, ~ok)
          ELSE IF inst.status = "throws"
          THEN /\ Returns("getInstitutionInfo", userId, Failure("bank error"))
               /\ Did(TRUE, 2, TRUE, ~ok)
          ELSE /\ Returns("getInstitutionInfo", userId,
                          [success |-> TRUE, institution |-> inst.institution])
               /\ Did(TRUE, 2, FALSE, ~ok)
    /\ UNCHANGED <<parserVars, storageVars, fetch, runs, page, dash>>

----------------------------------------------------------------------------
(* The route handlers GET /api/transactions and POST exchange-public-token *)

\* the userId parameter of the query string, and the fields of the body
UserIdParameters == {Null, Some("")} \cup {Some(u) : u \in UserIds}
PublicTokens == {Null, Some("public-1")}

\* itemPublicTokenExchange: it throws, or gives the access token
ExchangeResponses ==
    {BankThrows, [status |-> "ok", access_token |-> "access-new", item_id |-> "item-1"]}

\* NextResponse.json(body, {status})
Response(status, body) == [status |-> status, body |-> body]

\* a parameter with an empty value is taken for a given one
MissingNull(value) == value = Null

\* !value, for a string that may be null
Missing(value) == value = Null \/ value = Some("")

\* the handler fn answered request with response, after so many storage calls
Answers(fn, request, response, storageCalls) ==
    op' = [pc |-> "returned", fn |-> fn,
           userId |-> IF request.userId = Null THEN "" ELSE request.userId[1],
           request |-> request, result |-> response, storageCalls |-> storageCalls]

\* GET /api/transactions?userId=...
GetTransactionsRoute ==
    /\ Quiet
    /\ \E userId \in UserIdParameters, query \in {"ok", "error", "throws"} :
          IF Missing(userId)
          THEN /\ Answers("GET /api/transactions", [userId |-> userId],
                          Response(400, [error |-> "User ID is required"]), 0)
               /\ observed' = NothingObserved
          ELSE /\ observed' = [NothingObserved EXCEPT !.storageFailed = query # "ok"]
               /\ IF query = "throws"
                  THEN Answers("GET /api/transactions", [userId |-> userId],
                               Response(500, [error |-> "Internal server error"]), 1)
                  ELSE IF getTransactions(userId[1], query = "ok").error # Null
                  THEN Answers("GET /api/transactions", [userId |-> userId],
                               Response(500, [error |-> "Failed to fetch transactions"]), 1)
                  ELSE Answers("GET /api/transactions", [userId |-> userId],
                               Response(200, [success |-> TRUE,
                                              transactions |->
                                                  getTransactions(userId[1], TRUE).data[1]]), 1)
    /\ UNCHANGED <<parserVars, storageVars, fetch, runs, page, dash>>

\* { public_token, userId } = await request.json()
Body(public_token, userId) == [public_token |-> public_token, userId |-> userId]

ExchangeFailed == Response(500, [error |-> "Failed to exchange public token"])

\* the response of a completed exchange
Exchanged(token, accountsResponse) ==
    Response(200, [access_token |-> token.access_token, item_id |-> token.item_id,
                   accounts |-> accountsResponse.accounts])

\* POST exchange-public-token, the handler that writes the token to users and,
\* when that fails, to user_profiles
ExchangePublicToken ==
    /\ Quiet
    /\ \E public_token \in PublicTokens, userId \in UserIdParameters,
          token \in ExchangeResponses, accountsResponse \in AccountsResponses,
          update \in BOOLEAN, upsert \in BOOLEAN :
          IF Missing(public_token) \/ Missing(userId)
          THEN /\ Answers("POST exchange-public-token", Body(public_token, userId),
                          Response(400, [error |-> "Public token and user ID are required"]), 0)
               /\ observed' = NothingObserved
               /\ UNCHANGED <<users, profiles>>
          ELSE IF token.status = "throws"
          THEN /\ Answers("POST exchange-public-token", Body(public_token, userId), ExchangeFailed, 0)
               /\ Did(FALSE, 1, TRUE, FALSE)
               /\ UNCHANGED <<users, profiles>>
          ELSE IF accountsResponse.status = "throws"
          THEN /\ Answers("POST exchange-public-token", Body(public_token, userId), ExchangeFailed, 0)
               /\ Did(FALSE, 2, TRUE, FALSE)
               /\ UNCHANGED <<users, profiles>>
          ELSE /\ users' = updateUserToken(userId[1], token.access_token, update)
               /\ profiles' = IF update THEN profiles
                               ELSE upsertProfile(userId[1], token.access_token, upsert)
               /\ Answers("POST exchange-public-token", Body(public_token, userId),
                          Exchanged(token, accountsResponse), IF update THEN 1 ELSE 2)
               /\ Did(FALSE, 2, FALSE, ~update /\ ~upsert)
    /\ UNCHANGED <<parserVars, accounts, transactions, fetch, runs, page, dash>>

\* POST exchange-public-token, the handler that writes the token with
\* updateUserProfile
ExchangePublicTokenProfile ==
    /\ Quiet
    /\ \E public_token \in PublicTokens, userId \in UserIdParameters,
          token \in ExchangeResponses, accountsResponse \in AccountsResponses,
          update \in BOOLEAN :
          IF Missing(public_token) \/ Missing(userId)
          THEN /\ Answers("POST exchange-public-token (profile)", Body(public_token, userId),
                          Response(400, [error |-> "Public token and user ID are required"]), 0)
               /\ observed' = NothingObserved
               /\ UNCHANGED profiles
          ELSE IF token.status = "throws"
          THEN /\ Answers("POST exchange-public-token (profile)", Body(public_token, userId), ExchangeFailed, 0)
               /\ Did(FALSE, 1, TRUE, FALSE)
               /\ UNCHANGED profiles
          ELSE IF accountsResponse.status = "throws"
          THEN /\ Answers("POST exchange-public-token (profile)", Body(public_token, userId), ExchangeFailed, 0)
               /\ Did(FALSE, 2, TRUE, FALSE)
               /\ UNCHANGED profiles
          ELSE /\ profiles' = updateUserProfile(userId[1], token.access_token, update)
               /\ Answers("POST exchange-public-token (profile)", Body(public_token, userId),
                          IF update THEN Exchanged(token, accountsResponse)
                          ELSE Response(500, [error |-> "Failed to save bank connection"]), 1)
               /\ Did(FALSE, 2, FALSE, ~update)
    /\ UNCHANGED <<parserVars, users, accounts, transactions, fetch, runs, page, dash>>

----------------------------------------------------------------------------
(* The protected page: the transaction list in the browser, the add/edit   *)
(* expense form and the receipt upload.                                    *)

MaxPending == 1
MaxListLen == 6

\* useState of the page: the list the page starts with, nothing being edited
PageMounted ==
    [transactions |-> << [id |-> "1", description |-> "a"],
                         [id |-> "2", description |-> "a"] >>,
     editingTransaction |-> Null,
     currentScreen |-> "dashboard",
     pending |-> <<>>]

\* every save adds an entry at the end
AppendAlways(prev, transaction) == Append(prev, transaction)

\* the updater of handleSaveTransaction: findIndex, then replace or append
handleSaveTransaction(prev, transaction) ==
    LET found == {i \in 1..Len(prev) : prev[i].id = transaction.id}
    IN  IF found # {}
        THEN [prev EXCEPT ![Min(found)] = transaction]
        ELSE Append(prev, transaction)

\* handleNavigate(screen)
HandleNavigate ==
    /\ \E screen \in {"dashboard", "add-expense", "receipt-upload", "transactions"} :
          page' = [page EXCEPT !.currentScreen = screen,
                               !.editingTransaction =
                                   IF screen = "add-expense" THEN Null ELSE @]
    /\ UNCHANGED <<parserVars, storageVars, fetchVars, op, runs, dash>>

\* handleEditTransaction(transaction), from the list of the transactions screen
HandleEditTransaction ==
    /\ page.currentScreen = "transactions"
    /\ \E i \in 1..Len(page.transactions) :
          page' = [page EXCEPT !.editingTransaction = Some(page.transactions[i]),
                               !.currentScreen = "add-expense"]
    /\ UNCHANGED <<parserVars, storageVars, fetchVars, op, runs, dash>>

\* handleSubmit of the form up to its await: the expense is built from the
\* description typed into the form, with the id of the expense being edited
\* or else Date.now().toString(), the time of the click (twice the same
\* within a millisecond)
HandleSubmit ==
    /\ page.currentScreen = "add-expense"
    /\ Len(page.pending) < MaxPending
    /\ \E now \in {"1700"}, description \in {"a", "b"} :
          LET id == IF page.editingTransaction # Null
                       /\ page.editingTransaction[1].id # ""
                    THEN page.editingTransaction[1].id ELSE now
          IN  page' = [page EXCEPT
                          !.pending = Append(@, [id |-> id, description |-> description])]
    /\ UNCHANGED <<parserVars, storageVars, fetchVars, op, runs, dash>>

\* the timeout of a handleSubmit is over: onSave(expense), then onBack()
SubmitSaves ==
    /\ page.pending # <<>>
    /\ Len(page.transactions) < MaxListLen
    /\ page' = [page EXCEPT
                   !.transactions = handleSaveTransaction(@, Head(page.pending)),
                   !.pending = Tail(@),
                   !.currentScreen = "dashboard"]
    /\ UNCHANGED <<parserVars, storageVars, fetchVars, op, runs, dash>>

\* handleReceiptUploadComplete(expenseData): expenseData.id is what the upload
\* hands over, new, undefined, or the id of an entry of the list
HandleReceiptUploadComplete ==
    /\ page.currentScreen = "receipt-upload"
    /\ Len(page.transactions) < MaxListLen
    /\ \E id \in {"r1", "undefined", "1", "2"}, description \in {"a", "b"} :
          page' = [page EXCEPT
                      !.transactions =
                          handleSaveTransaction(@, [id |-> id, description |-> description])]
    /\ UNCHANGED <<parserVars, storageVars, fetchVars, op, runs, dash>>

PageNext ==
    \/ HandleNavigate
    \/ HandleEditTransaction
    \/ HandleSubmit
    \/ SubmitSaves
    \/ HandleReceiptUploadComplete

----------------------------------------------------------------------------
(* The dashboard: the bank-connection state of the component.              *)

\* what fetch gives the component: a response, ok or not, with the text of its
\* body, or a rejection with the message of its error
Fetched(ok, status, json, text) ==
    [threw |-> FALSE, ok |-> ok, status |-> status, json |-> json, text |-> text]
Rejected(message) ==
    [threw |-> TRUE, ok |-> FALSE, status |-> 0, json |-> FALSE, text |-> message]

\* useState of the component, and where its two async functions stand:
\* creating while createLinkToken awaits its response, connecting while
\* onPlaidSuccess awaits the exchange and then the ingestion; ready and
\* linkOpen are the state of Plaid Link, answer is what the latest request
\* of the component was answered with, none so far
DashboardMounted ==
    [linkToken |-> Null, plaidLoading |-> FALSE, plaidError |-> Null,
     bankConnected |-> FALSE, ready |-> FALSE, linkOpen |-> FALSE,
     creating |-> FALSE, connecting |-> "idle", answer |-> Fetched(TRUE, 0, FALSE, "")]

\* the answers of POST /api/plaid/exchange-public-token: those of its two
\* handlers, a gateway's page that is not JSON, and a rejection
ExchangeAnswers ==
    { Fetched(TRUE, 200, TRUE, "access-new"),
      Fetched(FALSE, 400, TRUE, "Public token and user ID are required"),
      Fetched(FALSE, 500, TRUE, ExchangeFailed.body.error),
      Fetched(FALSE, 500, TRUE, "Failed to save bank connection"),
      Fetched(FALSE, 502, FALSE, "<html>Bad Gateway</html>"),
      Rejected("Failed to fetch") }

\* the click on the connect button, which is disabled while plaidLoading:
\* createLinkToken starts when there is no link token, Plaid Link opens when
\* there is one and it is ready
HandleConnectBank ==
    /\ ~dash.plaidLoading
    /\ dash' = IF dash.linkToken = Null
               THEN [dash EXCEPT !.plaidError = Null, !.plaidLoading = TRUE,
                                 !.creating = TRUE]
               ELSE IF dash.ready
               THEN [dash EXCEPT !.plaidError = Null, !.linkOpen = TRUE]
               ELSE [dash EXCEPT !.plaidError = Null]
    /\ UNCHANGED <<parserVars, storageVars, fetchVars, op, runs, page>>

\* POST /api/plaid/create-link-token is answered: the token, or the message
\* of the catch block, and the finally block
CreateLinkTokenResponds ==
    /\ dash.creating
    /\ \E response \in { Fetched(TRUE, 200, TRUE, "link-1"),
                          Fetched(FALSE, 500, TRUE, "Failed to create link token"),
                          Rejected("Failed to fetch") } :
          dash' = IF response.ok
                  THEN [dash EXCEPT !.linkToken = Some(response.text), !.ready = FALSE,
                                    !.plaidLoading = FALSE, !.creating = FALSE,
                                    !.answer = response]
                  ELSE [dash EXCEPT
                           !.plaidError =
                               Some("Failed to initialize bank connection. Please try again."),
                                    !.plaidLoading = FALSE, !.creating = FALSE,
                                    !.answer = response]
    /\ UNCHANGED <<parserVars, storageVars, fetchVars, op, runs, page>>

\* usePlaidLink has loaded the token
PlaidReady ==
    /\ dash.linkToken # Null
    /\ ~dash.ready
    /\ dash' = [dash EXCEPT !.ready = TRUE]
    /\ UNCHANGED <<parserVars, storageVars, fetchVars, op, runs, page>>

\* the effect: open() when there is a token, Plaid Link is ready and nothing loads
OpenEffect ==
    /\ dash.linkToken # Null /\ dash.ready /\ ~dash.plaidLoading
    /\ ~dash.linkOpen
    /\ dash' = [dash EXCEPT !.linkOpen = TRUE]
    /\ UNCHANGED <<parserVars, storageVars, fetchVars, op, runs, page>>

\* onExit of Plaid Link
OnExit ==
    /\ dash.linkOpen
    /\ dash' = [dash EXCEPT !.linkOpen = FALSE, !.linkToken = Null, !.ready = FALSE,
                            !.plaidLoading = FALSE]
    /\ UNCHANGED <<parserVars, storageVars, fetchVars, op, runs, page>>

\* onPlaidSuccess(public_token) up to its first await
OnPlaidSuccess ==
    /\ dash.linkOpen
    /\ dash' = [dash EXCEPT !.linkOpen = FALSE, !.plaidLoading = TRUE,
                            !.plaidError = Null, !.connecting = "exchanging"]
    /\ UNCHANGED <<parserVars, storageVars, fetchVars, op, runs, page>>


\* the link token stays when the bank is connected
ConnectedKeepingToken(d) == [d EXCEPT !.bankConnected = TRUE]

\* setBankConnected(true) and setLinkToken(null), after which Plaid Link has
\* no token to be ready with
Connected(d) == [d EXCEPT !.bankConnected = TRUE, !.linkToken = Null, !.ready = FALSE]

\* the exchange is answered: connected, and on to the ingestion, or message
\* shown in the banner, and the finally block
ExchangeAnswered(message) ==
    /\ dash.connecting = "exchanging"
    /\ \E response \in ExchangeAnswers :
          dash' = IF response.ok
                  THEN [Connected(dash) EXCEPT !.connecting = "ingesting",
                                               !.answer = response]
                  ELSE [dash EXCEPT !.plaidError = Some(message[response]),
                                    !.plaidLoading = FALSE, !.connecting = "idle",
                                    !.answer = response]
    /\ UNCHANGED <<parserVars, storageVars, fetchVars, op, runs, page>>

\* the catch block of onPlaidSuccess shows the message of the component
ExchangeResponds ==
    ExchangeAnswered([response \in ExchangeAnswers |->
                         "Failed to connect bank account. Please try again."])

\* the catch block of the component's other version shows the message of the
\* error thrown, which is the error of the response's body, the SyntaxError
\* of a body that is not JSON, or the error of a rejected fetch
DetailedExchangeResponds ==
    ExchangeAnswered([response \in ExchangeAnswers |-> response.text])

\* POST /api/plaid/transactions is answered, whatever the answer: the inner
\* catch only logs, and the finally block ends the run
IngestionResponds ==
    /\ dash.connecting = "ingesting"
    /\ \E response \in { Fetched(TRUE, 200, TRUE, "count"),
                          Fetched(FALSE, 500, TRUE, "Failed to fetch transactions"),
                          Rejected("Failed to fetch") } :
          dash' = [dash EXCEPT !.plaidLoading = FALSE, !.connecting = "idle",
                               !.answer = response]
    /\ UNCHANGED <<parserVars, storageVars, fetchVars, op, runs, page>>

\* the Dismiss button of the banner
Dismiss ==
    /\ dash.plaidError # Null
    /\ dash' = [dash EXCEPT !.plaidError = Null]
    /\ UNCHANGED <<parserVars, storageVars, fetchVars, op, runs, page>>

DashboardNext ==
    \/ HandleConnectBank
    \/ CreateLinkTokenResponds
    \/ PlaidReady
    \/ OpenEffect
    \/ OnExit
    \/ OnPlaidSuccess
    \/ ExchangeResponds
    \/ IngestionResponds
    \/ Dismiss

\* the component's other version
DetailedDashboardNext ==
    \/ HandleConnectBank
    \/ CreateLinkTokenResponds
    \/ PlaidReady
    \/ OpenEffect
    \/ OnExit
    \/ OnPlaidSuccess
    \/ DetailedExchangeResponds
    \/ IngestionResponds
    \/ Dismiss

Init ==
    /\ calls = <<>>
    /\ lastIndex = 0
    /\ users = InitialUsers
    /\ accounts = {}
    /\ transactions = {}
    /\ profiles = {}
    /\ fetch = FetchIdle
    /\ observed = NothingObserved
    /\ op = OpIdle
    /\ runs = 0
    /\ page = PageMounted
    /\ dash = DashboardMounted

Next ==
    \/ FetchStart
    \/ AccountsGet
    \/ StoreAccount
    \/ TransactionsGet
    \/ AnalyzeTransaction
    \/ AddTransaction
    \/ UpdateAccount
    \/ FetchReturn
    \/ GetAccountBalances
    \/ GetInstitutionInfo
    \/ GetTransactionsRoute
    \/ ExchangePublicToken
    \/ ExchangePublicTokenProfile

Spec == Init /\ [][Next]_vars

PageSpec == Init /\ [][PageNext]_vars

DetailedDashboardSpec == Init /\ [][DetailedDashboardNext]_vars

\* a request the browser sent is answered or fails in the end
DashboardFairSpec ==
    /\ Init /\ [][DashboardNext]_vars
    /\ WF_vars(CreateLinkTokenResponds)
    /\ WF_vars(ExchangeResponds)
    /\ WF_vars(IngestionResponds)

----------------------------------------------------------------------------
(* analyzeAllTransactions and generateTaxSummary, and operations that      *)
(* follow one another.                                                     *)

MaxRuns == 2

\* what the completion call gives when stored transactions are analysed
ReclassifyResponses ==
    { Thrown,
      Reply(<<"N","o",","," ","b",","," ","1","0","%">>),
      Reply(<<"N","o",","," ","c",","," ","0","%">>) }

\* the rows of a query result, in the order of the result
SeqOf(S) ==
    CHOOSE q \in [1..Cardinality(S) -> S] : \A x \in S : \E i \in DOMAIN q : q[i] = x

\* analysis.deduction_score || undefined
OrUndefined(score) == IF score = Null \/ score = Some(0) THEN Null ELSE score

\* transactions.map(async ...): every callback runs up to its first await,
\* which is the call to the completion client
AllStarted(status) == [i \in DOMAIN status |-> "classifying"]

\* analyzeAllTransactions(userId) starts: getTransactions, and the callbacks
AnalyzeAllStart ==
    /\ Quiet
    /\ \E userId \in UserIds, ok \in BOOLEAN :
        \E found \in {getTransactions(userId, ok).data} :
          IF found = Null \/ found[1] = {}
          THEN /\ Returns("analyzeAllTransactions", userId, Failure("No transactions found"))
               /\ observed' = [NothingObserved EXCEPT !.storageFailed = ~ok]
          ELSE /\ op' = [pc |-> "awaiting", fn |-> "analyzeAllTransactions",
                         userId |-> userId, result |-> NoResult, storageCalls |-> 1,
                         rows |-> SeqOf(found[1]),
                         status |-> AllStarted([i \in 1..Cardinality(found[1]) |-> "new"]),
                         analyses |-> [i \in 1..Cardinality(found[1]) |-> AnalysisFailure]]
               /\ observed' = NothingObserved
    /\ UNCHANGED <<parserVars, storageVars, fetch, runs, page, dash>>

\* the completion call of one callback returns: the reply is parsed, and
\* updateTransaction is called if the analysis succeeded
CompletionReturns ==
    /\ op.pc = "awaiting"
    /\ \E i \in DOMAIN op.status, resp \in ReclassifyResponses :
        \E out \in {analyzeTransactionDeductibility(resp, RegexStart)} :
          /\ op.status[i] = "classifying"
          /\ op' = IF out.threw
                   THEN [op EXCEPT !.pc = "returned", !.result = Failure("error")]
                   ELSE [op EXCEPT !.status[i] = IF out.value.success THEN "updating"
                                                 ELSE "done",
                                   !.analyses[i] = out.value]
          /\ observed' = [observed EXCEPT
                             !.failedAnalysis = @ \/ out.threw \/ ~out.value.success]
          /\ lastIndex' = LastIndexAfter(resp, RegexStart)
    /\ UNCHANGED <<calls, storageVars, fetch, runs, page, dash>>

\* updateTransaction of one callback returns, and the callback with it
UpdateReturns ==
    /\ op.pc = "awaiting"
    /\ \E i \in DOMAIN op.status, ok \in BOOLEAN :
          /\ op.status[i] = "updating"
          /\ transactions' =
                 updateTransaction(op.rows[i].trans_id,
                     [is_deductible |-> op.analyses[i].is_deductible,
                      deductible_reason |-> op.analyses[i].deductible_reason,
                      deduction_score |-> OrUndefined(op.analyses[i].deduction_score)],
                     ok)
          /\ op' = [op EXCEPT !.status[i] = "done", !.storageCalls = @ + 1]
          /\ observed' = [observed EXCEPT !.storageFailed = @ \/ ~ok]
    /\ UNCHANGED <<parserVars, users, accounts, profiles, fetch, runs, page, dash>>

\* every result counts, whatever its success
Settled(results) == Len(results)

\* results.filter(r => r.success).length
Successful(results) == Cardinality({i \in DOMAIN results : results[i].success})

\* Promise.all has every result: { success: true, analyzed, total }
AnalyzeAllReturn ==
    /\ op.pc = "awaiting"
    /\ \A i \in DOMAIN op.status : op.status[i] = "done"
    /\ op' = [op EXCEPT
                 !.pc = "returned",
                 !.result = [success |-> TRUE,
                             analyzed |-> Successful(op.analyses),
                             total |-> Len(op.rows)]]
    /\ UNCHANGED <<parserVars, storageVars, fetch, observed, runs, page, dash>>

\* reduce((sum, t) => sum + t.amount, 0)
RECURSIVE SumOfAmounts(_)
SumOfAmounts(rows) ==
    IF rows = {} THEN 0
    ELSE LET r == CHOOSE x \in rows : TRUE
         IN  r.amount + SumOfAmounts(rows \ {r})

\* what the completion call gives for the summary
SummaryResponses == { Thrown, Reply(<<"s","u","m","m","a","r","y">>) }

\* generateTaxSummary(userId)
GenerateTaxSummary ==
    /\ Quiet
    /\ \E userId \in UserIds, ok \in BOOLEAN, resp \in SummaryResponses :
        \E found \in {getTransactions(userId, ok).data} :
          /\ IF found = Null \/ found[1] = {}
             THEN Returns("generateTaxSummary", userId, Failure("No transactions found"))
             ELSE IF resp.status # "ok"
             THEN Returns("generateTaxSummary", userId, Failure("error"))
             ELSE Returns("generateTaxSummary", userId,
                          [success |-> TRUE,
                           summary |-> ContentOf(resp),
                           totalDeductible |->
                               SumOfAmounts({t \in found[1] : t.is_deductible}),
                           deductibleCount |->
                               Cardinality({t \in found[1] : t.is_deductible})])
          /\ observed' = [NothingObserved EXCEPT
                             !.storageFailed = ~ok,
                             !.failedAnalysis = found # Null /\ found[1] # {}
                                                /\ resp.status # "ok"]
    /\ UNCHANGED <<parserVars, storageVars, fetch, runs, page, dash>>

\* the caller's next call: the operation that returned is over
NextOperation ==
    /\ fetch.pc = "returned" \/ op.pc = "returned"
    /\ runs + 1 < MaxRuns
    /\ runs' = runs + 1
    /\ fetch' = FetchIdle
    /\ op' = OpIdle
    /\ observed' = NothingObserved
    /\ UNCHANGED <<parserVars, storageVars, page, dash>>

\* the answers of the bank in runs that follow one another: an account may be
\* listed twice
ListedAccounts ==
    {BankThrows} \cup
    {[status |-> "ok", accounts |-> as] :
        as \in {<<"acc1">>, <<"acc1", "acc1">>}}

ListedTransactions ==
    {BankThrows} \cup
    {[status |-> "ok", transactions |-> SeqOf(BankTransactions), request_id |-> Null],
     [status |-> "ok", transactions |-> <<>>, request_id |-> Some("req-1")]}

SyncNext ==
    \/ FetchStart
    \/ AccountsGetFrom(ListedAccounts)
    \/ StoreAccount
    \/ TransactionsGetFrom(ListedTransactions)
    \/ AnalyzeTransaction
    \/ AddTransaction
    \/ UpdateAccount
    \/ FetchReturn
    \/ AnalyzeAllStart
    \/ CompletionReturns
    \/ UpdateReturns
    \/ AnalyzeAllReturn
    \/ GenerateTaxSummary
    \/ NextOperation

SyncSpec == Init /\ [][SyncNext]_vars

----------------------------------------------------------------------------
(* One call of analyzeTransactionDeductibility: the completion call gives  *)
(* resp, and the function parses it and returns.                           *)

Analyze(resp) ==
    \E out \in {analyzeTransactionDeductibility(resp, RegexStart)} :
        /\ calls' = Append(calls, [input |-> resp, threw |-> out.threw, output |-> out.value])
        /\ lastIndex' = LastIndexAfter(resp, RegexStart)
        /\ UNCHANGED <<storageVars, fetchVars, op, runs, page, dash>>

\* one call, on any reply
AnalyzeOnce ==
    /\ calls = <<>>
    /\ \E resp \in Responses : Analyze(resp)

\* call after call, the same replies coming back
AnalyzeRepeatedly ==
    /\ Len(calls) < MaxCalls
    /\ \E resp \in RepeatResponses : Analyze(resp)

ParserSpec == Init /\ [][AnalyzeOnce]_vars
RepeatSpec == Init /\ [][AnalyzeRepeatedly]_vars

----------------------------------------------------------------------------
(* What the claims speak of *)

CallIds == 1..Len(calls)
\* the completion call of call k delivered a reply
Replied(k) == calls[k].input.status = "ok" /\ calls[k].input.choices # <<>>
Text(k) == ContentOf(calls[k].input)
Out(k) == calls[k].output

Verdict(yes, reason, score) ==
    [success |-> TRUE, is_deductible |-> yes,
     deductible_reason |-> reason, deduction_score |-> score]

\* The length of the longest run of characters of the class that ends at s[i].
RunLenBack(s, i, class) ==
    Max({k \in 0..i : \A j \in (i - k + 1)..i : s[j] \in class})

InLowerCase(w) == [j \in 1..Len(w) |-> toLowerCase(w[j])]

\* the first token of s: the word characters that follow its leading white space
FirstWord(s) ==
    LET lead == RunLen(s, 1, SpaceChars)
    IN  SubSeq(s, lead + 1, lead + RunLen(s, lead + 1, WordChars))

LeastOf(a, b) == IF a < b THEN a ELSE b

\* C1: for every reply, is_deductible is a boolean, and it is true exactly when
\* the first token of the reply is "yes" in any letter case; also for the
\* empty and the malformed reply.
C1_YesTokenDecides ==
    \A k \in CallIds :
        Replied(k) =>
            /\ Out(k).success
            /\ Out(k).is_deductible \in BOOLEAN
            /\ Out(k).is_deductible <=>
                   (InLowerCase(FirstWord(Text(k))) = <<"y","e","s">>)

\* a reply " Yes..." (upper case, after white space) found deductible
C1_Witness ==
    \E k \in CallIds :
        /\ Replied(k)
        /\ Len(Text(k)) > 3
        /\ Text(k)[1] = " "
        /\ Out(k).is_deductible

\* The form of C2: yes-or-no, separators, reason text, separators, 1 to 3
\* digits, "%".  The reason text starts and ends with a character that is no
\* separator; the parts are then the only ones.
FormHead(s) ==
    IF StartsWithIgnoreCase(s, <<"y","e","s">>) THEN 3
    ELSE IF StartsWithIgnoreCase(s, <<"n","o">>) THEN 2 ELSE 0
FormDigits(s) == RunLenBack(s, Len(s) - 1, DigitChars)
FormReasonFirst(s) == FormHead(s) + RunLen(s, FormHead(s) + 1, SeparatorChars) + 1
FormReasonLast(s) ==
    Len(s) - 1 - FormDigits(s) - RunLenBack(s, Len(s) - 1 - FormDigits(s), SeparatorChars)
HasForm(s) ==
    /\ Len(s) > 0
    /\ s[Len(s)] = "%"
    /\ FormHead(s) > 0
    /\ FormDigits(s) \in 1..3
    /\ FormReasonFirst(s) > FormHead(s) + 1
    /\ FormReasonLast(s) < Len(s) - 1 - FormDigits(s)
    /\ FormReasonFirst(s) <= FormReasonLast(s)
FormReason(s) == SubSeq(s, FormReasonFirst(s), FormReasonLast(s))
FormPercent(s) == parseInt(SubSeq(s, Len(s) - FormDigits(s), Len(s) - 1))

\* C2: for every reply of that form the parser returns the reason text (its
\* first letter in upper case, as in the two replies of the specification)
\* and min(100, N) / 100, with is_deductible matching the leading yes or no.
C2_FormParsed ==
    \A k \in CallIds :
        Replied(k) /\ HasForm(Text(k)) =>
            Out(k) = Verdict(FormHead(Text(k)) = 3,
                             Capitalize(FormReason(Text(k))),
                             Some(LeastOf(100, FormPercent(Text(k)))))

\* The percentages written in s: every whole number that is followed, after
\* white space or none, by "%".
Percentages(s) ==
    {parseInt(SubSeq(s, i, i + RunLen(s, i, DigitChars) - 1)) :
        i \in {j \in 1..Len(s) :
                 /\ IsDigit(s[j])
                 /\ (j = 1 \/ ~IsDigit(s[j - 1]))
                 /\ LET after == j + RunLen(s, j, DigitChars)
                        sign == after + RunLen(s, after, SpaceChars)
                    IN  sign <= Len(s) /\ s[sign] = "%"}}

\* C3: a score that is not null lies in [0, 1], and a reply whose percentages
\* are all above 100 gets the score 1.0.
C3_ScoreClamped ==
    \A k \in CallIds :
        Replied(k) =>
            /\ Out(k).deduction_score # Null =>
                   Out(k).deduction_score[1] \in 0..100
            /\ (Percentages(Text(k)) # {} /\ \A v \in Percentages(Text(k)) : v > 100) =>
                   Out(k).deduction_score = Some(100)

ThisSeemsFine ==
    <<"T","h","i","s"," ","s","e","e","m","s"," ","f","i","n","e">>

\* The inputs of C4: "yes" first, no comma, a percentage of 1 to 3 digits last.
NoCommaYesPercent(s) ==
    /\ StartsWithIgnoreCase(s, <<"y","e","s">>)
    /\ \A j \in 1..Len(s) : s[j] # ","
    /\ s[Len(s)] = "%"
    /\ FormDigits(s) \in 1..3

\* white space, then 1 to 3 digits, then "%", right after s[b]
PercentAfterSpace(s, b) ==
    LET w == RunLen(s, b + 1, SpaceChars)
        d == RunLen(s, b + w + 1, DigitChars)
    IN  w >= 1 /\ d \in 1..3 /\ b + w + d + 1 <= Len(s) /\ s[b + w + d + 1] = "%"
NumberAfterSpace(s, b) ==
    LET w == RunLen(s, b + 1, SpaceChars)
    IN  parseInt(SubSeq(s, b + w + 1, b + w + RunLen(s, b + w + 1, DigitChars)))
\* where a text that starts at s[from] and stays on its line can end before such a percentage
SpaceStops(s, from) ==
    {b \in from..Len(s) :
        /\ PercentAfterSpace(s, b)
        /\ \A j \in from..b : ~IsLineTerminator(s[j])}

\* C4 as it was stated: on such an input the strict pattern does not match, and
\* the parser returns the percentage as the score with "No reason provided".
C4_NoCommaFallsBack ==
    \A k \in CallIds :
        Replied(k) /\ NoCommaYesPercent(Text(k)) =>
            /\ StrictMatch(Text(k)) = Null
            /\ Out(k).deductible_reason = NoReasonProvided
            /\ Out(k).deduction_score = Some(LeastOf(100, FormPercent(Text(k))))

\* C4, amended: white space is a separator of the strict pattern.  When "yes" is
\* followed by white space, a text and white space before a percentage, the
\* strict pattern matches: the reason is the text up to the first such
\* percentage, capitalised, and the score is that percentage ("yes this seems
\* fine 60%" gives "This seems fine" and 0.60).  When only the percentage, or
\* one white-space character and the percentage, follows "yes", the strict
\* pattern does not match and the default reason comes with the fallback score.
C4_WhiteSpaceSeparates ==
    \A k \in CallIds :
        Replied(k) /\ NoCommaYesPercent(Text(k)) =>
            LET s == Text(k)
                first == 4 + RunLen(s, 4, SpaceChars)
                stops == SpaceStops(s, first)
            IN  /\ s = SeemsFine =>
                      /\ StrictMatch(s) # Null
                      /\ Out(k) = Verdict(TRUE, ThisSeemsFine, Some(60))
                /\ (first > 4 /\ stops # {}) =>
                      /\ StrictMatch(s) # Null
                      /\ Out(k).deductible_reason = Capitalize(SubSeq(s, first, Min(stops)))
                      /\ Out(k).deduction_score =
                             Some(LeastOf(100, NumberAfterSpace(s, Min(stops))))
                /\ (first <= 5 /\ first + FormDigits(s) = Len(s)) =>
                      /\ StrictMatch(s) = Null
                      /\ Out(k).deductible_reason = NoReasonProvided
                      /\ Out(k).deduction_score = Some(LeastOf(100, FormPercent(s)))

\* the reply of the specification, parsed by the strict pattern
C4_Witness ==
    \E k \in CallIds :
        /\ Replied(k)
        /\ Text(k) = SeemsFine
        /\ Out(k).deductible_reason = ThisSeemsFine

Commas(s) == {j \in 1..Len(s) : s[j] = ","}

WithoutSpaceAround(s) ==
    SubSeq(s, 1 + RunLen(s, 1, SpaceChars), Len(s) - RunLenBack(s, Len(s), SpaceChars))

\* a percentage of any length somewhere after s[i]
PercentageBeyond(s, i) ==
    \E j \in (i + 1)..Len(s) :
        /\ IsDigit(s[j])
        /\ LET sign == j + 1 + RunLen(s, j + 1, SpaceChars)
           IN  sign <= Len(s) /\ s[sign] = "%"

\* The segment of C5 as it was stated: the text between the first two commas of
\* a reply that starts with yes or no and has a percentage after them.
FirstSegment(s) ==
    SubSeq(s, Min(Commas(s)) + 1, Min(Commas(s) \ {Min(Commas(s))}) - 1)
HasFirstSegment(s) ==
    /\ FormHead(s) > 0
    /\ Cardinality(Commas(s)) >= 2
    /\ PercentageBeyond(s, Min(Commas(s) \ {Min(Commas(s))}))
    /\ WithoutSpaceAround(FirstSegment(s)) # <<>>

\* C5 as it was stated (the segment trimmed and capitalised): when the strict
\* pattern does not match, the reason is the first comma-delimited segment
\* between the leading yes/no and a trailing percentage if there is one, and
\* "No reason provided" otherwise; the empty reply gives (false, default, null).
C5_FirstSegmentOrDefault ==
    \A k \in CallIds :
        Replied(k) /\ StrictMatch(Text(k)) = Null =>
            /\ Out(k).deductible_reason =
                   IF HasFirstSegment(Text(k))
                   THEN Capitalize(WithoutSpaceAround(FirstSegment(Text(k))))
                   ELSE NoReasonProvided
            /\ Text(k) = <<>> => Out(k) = Verdict(FALSE, NoReasonProvided, Null)

\* a comma at s[c], then white space or none, 1 to 3 digits and "%"
CommaPercentAt(s, c) ==
    /\ c <= Len(s)
    /\ s[c] = ","
    /\ LET w == RunLen(s, c + 1, SpaceChars)
           d == RunLen(s, c + 1 + w, DigitChars)
       IN  d \in 1..3 /\ c + w + d + 1 <= Len(s) /\ s[c + w + d + 1] = "%"

\* The reason of the fallback path: the leading part is any text without a
\* comma, not empty; the reason starts after the first comma and the white space
\* that follows it, ends before the first comma that starts ", N%" and stays on
\* one line; it keeps its inner commas, loses the white space around it and gets
\* a capital first letter.  It is empty when only white space lies between the
\* first comma and the ", N%".
ExpectedFallbackReason(s) ==
    IF Commas(s) = {} \/ Min(Commas(s)) = 1 THEN NoReasonProvided
    ELSE LET p == Min(Commas(s))
             first == p + 1 + RunLen(s, p + 1, SpaceChars)
             ends == {b \in first..Len(s) :
                         /\ CommaPercentAt(s, b + 1)
                         /\ \A j \in first..b : ~IsLineTerminator(s[j])}
         IN  IF ends # {}
             THEN Capitalize(WithoutSpaceAround(SubSeq(s, first, Min(ends))))
             ELSE IF first > p + 1 /\ CommaPercentAt(s, first)
                        /\ ~IsLineTerminator(s[first - 1])
             THEN <<>>
             ELSE NoReasonProvided

\* C5, amended: when the strict pattern does not match, the reason is the text
\* between the first comma (after a non-empty leading part, which need not be
\* yes or no) and the first later comma that is followed by optional white
\* space, 1 to 3 digits and "%": on one line, inner commas kept, trimmed,
\* capitalised, possibly empty; and "No reason provided" when there is no such
\* text.  The empty reply gives (false, "No reason provided", null).
C5_FallbackReason ==
    \A k \in CallIds :
        Replied(k) /\ StrictMatch(Text(k)) = Null =>
            /\ Out(k).deductible_reason = ExpectedFallbackReason(Text(k))
            /\ Text(k) = <<>> => Out(k) = Verdict(FALSE, NoReasonProvided, Null)

\* a reply that does not start with yes or no, its reason holding a comma
C5_Witness ==
    \E k \in CallIds :
        /\ Replied(k)
        /\ StrictMatch(Text(k)) = Null
        /\ FormHead(Text(k)) = 0
        /\ Out(k).deductible_reason # NoReasonProvided
        /\ \E j \in 1..Len(Out(k).deductible_reason) : Out(k).deductible_reason[j] = ","

\* a digit with "%" right after it
HasDigitsPercent(s) ==
    \E j \in 1..(Len(s) - 1) : IsDigit(s[j]) /\ s[j + 1] = "%"
\* a digit, white space or none, and "%"
HasPercentPattern(s) ==
    \E j \in 1..Len(s) :
        /\ IsDigit(s[j])
        /\ LET sign == j + 1 + RunLen(s, j + 1, SpaceChars)
           IN  sign <= Len(s) /\ s[sign] = "%"

\* C6 as it was stated: the score is null exactly when no digit of the reply is
\* followed by "%".
C6_NullIffNoDigitsPercent ==
    \A k \in CallIds :
        Replied(k) => (Out(k).deduction_score = Null <=> ~HasDigitsPercent(Text(k)))

\* C6, amended: the score is null exactly when the reply holds no digit that is
\* followed, after white space or none, by "%"; otherwise it is a number.
C6_NullIffNoPercentPattern ==
    \A k \in CallIds :
        Replied(k) =>
            /\ Out(k).deduction_score = Null <=> ~HasPercentPattern(Text(k))
            /\ Out(k).deduction_score # Null => Out(k).deduction_score[1] \in Nat

\* a score read from "5 %"
C6_Witness ==
    \E k \in CallIds :
        /\ Replied(k)
        /\ ~HasDigitsPercent(Text(k))
        /\ Out(k).deduction_score = Some(5)

\* C7 as it was stated: the function never returns success = false and never
\* throws.
C7_NeverFails ==
    \A k \in CallIds : ~calls[k].threw /\ Out(k).success

\* C7, amended: the function never throws; for every reply the completion call
\* delivers, the empty and the null one included, it returns success = true
\* with a boolean, a reason string and a score in [0, 1] or null; it returns
\* success = false exactly when the completion call throws or delivers no choice.
C7_FailsOnlyWithoutReply ==
    \A k \in CallIds :
        /\ ~calls[k].threw
        /\ Replied(k) =>
              /\ Out(k).success
              /\ Out(k).is_deductible \in BOOLEAN
              /\ DOMAIN Out(k).deductible_reason = 1..Len(Out(k).deductible_reason)
              /\ Out(k).deduction_score = Null \/ Out(k).deduction_score[1] \in 0..100
        /\ ~Replied(k) => Out(k) = AnalysisFailure

\* a null content parsed as the empty reply
C7_Witness ==
    \E k \in CallIds :
        /\ calls[k].input = Returned(<<[content |-> Null]>>)
        /\ Out(k) = Verdict(FALSE, NoReasonProvided, Null)

----------------------------------------------------------------------------
(* What the claims say of fetchTransactions *)

\* the run got past the token gate and no call to the bank threw
BankAnswered == observed.gate /\ ~observed.bankFailed

\* the transactions of the current page not yet handed to addTransaction
Remaining ==
    IF fetch.pc \in {"analyze", "addTransaction"}
    THEN Len(fetch.transactions) - fetch.txn + 1
    ELSE 0

\* w occurs in s
Contains(s, w) ==
    \E i \in 1..(Len(s) - Len(w) + 1) : SubSeq(s, i, i + Len(w) - 1) = w

RequiresManualReview ==
    <<"r","e","q","u","i","r","e","s"," ","m","a","n","u","a","l"," ","r","e","v","i","e","w">>

\* C9: when the user has a stored token and no call to the bank fails, the run
\* asks for the transactions of each of the N accounts the bank listed, and
\* with M transactions returned in total it returns success with count M and
\* has called addTransaction M times, however many analyses failed and
\* whatever storage answered.
C9_CountsEveryTransaction ==
    (fetch.pc = "returned" /\ BankAnswered) =>
        /\ fetch.account = Len(fetch.plaidAccounts) + 1
        /\ fetch.result = [success |-> TRUE, count |-> observed.bankTransactions]
        /\ observed.addCalls = observed.bankTransactions

\* two accounts with two transactions each, an analysis that failed, and an
\* insert that stored nothing
C9_Witness ==
    /\ fetch.pc = "returned"
    /\ BankAnswered
    /\ Len(fetch.plaidAccounts) = 2
    /\ observed.bankTransactions = 4
    /\ observed.failedAnalysis
    /\ Cardinality(transactions) < 4
    /\ fetch.result = [success |-> TRUE, count |-> 4]
    /\ observed.addCalls = 4

\* C10: when the analysis of a transaction returns success=false or throws,
\* the record handed to addTransaction has is_deductible false, a reason that
\* contains "requires manual review" and score 0; no transaction is skipped
\* afterwards, each one of the page being handed to addTransaction in its
\* turn; and the run does not return a failure for it: after a failed
\* analysis only a call to the bank that throws makes the run fail.
C10_FailedAnalysisStillStored ==
    /\ (fetch.pc = "addTransaction" /\ observed.outcome \in {"failed", "threw"}) =>
          /\ fetch.transactionData.is_deductible = FALSE
          /\ Contains(fetch.transactionData.deductible_reason, RequiresManualReview)
          /\ fetch.transactionData.deduction_score = Some(0)
    /\ observed.failedAnalysis =>
          observed.addCalls + Remaining = observed.bankTransactions
    /\ (fetch.pc = "returned" /\ observed.failedAnalysis) =>
          (fetch.result.success \/ observed.bankFailed)

\* the first analysis of a page threw, the second transaction of the page was
\* analysed and handed over all the same, both rows are stored, and the run
\* returned success
C10_Witness ==
    /\ fetch.pc = "returned"
    /\ observed.failedAnalysis
    /\ fetch.result.success
    /\ fetch.result.count = 2
    /\ observed.addCalls = 2
    /\ \E failed \in transactions, fine \in transactions :
          /\ failed.deductible_reason = AnalysisErrorReason
          /\ failed.is_deductible = FALSE
          /\ failed.deduction_score = Some(0)
          /\ fine.account_id = failed.account_id
          /\ fine.trans_id # failed.trans_id
          /\ fine.deduction_score = Some(85)

----------------------------------------------------------------------------
(* What the claims say of the token gate and of failures *)

\* no row of users with this id holds a token
HoldsNoToken(u) ==
    ~\E r \in users : r.id = u /\ r.plaid_token # Null /\ r.plaid_token # Some("")

BankFunctions == {"getAccountBalances", "getInstitutionInfo"}

\* this step is the call of fetchTransactions(u): it returned at once, or not
FetchCalled(u) == fetch.pc = "idle" /\ fetch'.pc # "idle" /\ fetch'.userId = u

\* this step is the call of getAccountBalances(u) or getInstitutionInfo(u)
BankFunctionCalled(u) ==
    op.pc = "idle" /\ op'.pc # "idle" /\ op'.fn \in BankFunctions /\ op'.userId = u

NoPlaidTokenFound == Failure("No Plaid token found")

\* C11: when the user row is missing or holds no plaid_token, each of
\* fetchTransactions, getAccountBalances and getInstitutionInfo returns
\* {success: false, error: 'No Plaid token found'}, having made no call to the
\* bank and written nothing to accounts or transactions.
C11_NoTokenNoBankCall ==
    [][\A u \in UserIds :
          HoldsNoToken(u) =>
             /\ FetchCalled(u) =>
                    /\ fetch'.pc = "returned"
                    /\ fetch'.result = NoPlaidTokenFound
             /\ BankFunctionCalled(u) =>
                    /\ op'.pc = "returned"
                    /\ op'.result = NoPlaidTokenFound
             /\ (FetchCalled(u) \/ BankFunctionCalled(u)) =>
                    /\ observed'.bankCalls = 0
                    /\ accounts' = accounts
                    /\ transactions' = transactions]_vars

\* getInstitutionInfo was called for a user whose row holds no token, and
\* returned the failure without a call to the bank
C11_Witness ==
    /\ op.pc = "returned"
    /\ op.fn = "getInstitutionInfo"
    /\ op.userId = "u2"
    /\ \E r \in users : r.id = "u2" /\ r.plaid_token = Null
    /\ op.result = NoPlaidTokenFound
    /\ observed.bankCalls = 0

\* a call to the bank threw, the completion call failed, or a storage query
\* answered with an error, in the operation that ran last
UpstreamFailed ==
    observed.bankFailed \/ observed.failedAnalysis \/ observed.storageFailed

ResultFunctions ==
    BankFunctions \cup {"analyzeAllTransactions", "generateTaxSummary"}

\* C12: after a failure of an upstream call (user lookup, bank, completion
\* call, storage) inside fetchTransactions, getAccountBalances,
\* getInstitutionInfo, analyzeAllTransactions or generateTaxSummary, the
\* function returns {success: false, error}, never success = true.
C12_FailureReported ==
    /\ (fetch.pc = "returned" /\ UpstreamFailed) => ~fetch.result.success
    /\ (op.pc = "returned" /\ op.fn \in ResultFunctions /\ UpstreamFailed) =>
          ~op.result.success

----------------------------------------------------------------------------
(* What the claims say of the route handlers *)

PostRoutes == {"POST exchange-public-token", "POST exchange-public-token (profile)"}
Routes == {"GET /api/transactions"} \cup PostRoutes

Answered == op.pc = "returned" /\ op.fn \in Routes

\* the parameter is absent, or present and empty
NotGiven(value) == value = Null \/ value = Some("")

\* the request lacks a parameter its handler requires
LacksParameter ==
    \/ NotGiven(op.request.userId)
    \/ op.fn \in PostRoutes /\ NotGiven(op.request.public_token)

\* an {error} body
ErrorBody(body) == DOMAIN body = {"error"}

C14_UpstreamFailure500 ==
    (Answered /\ (observed.bankFailed \/ observed.storageFailed)) =>
        /\ op.result.status = 500
        /\ ErrorBody(op.result.body)

----------------------------------------------------------------------------
(* What the claims say of the stored rows *)

\* C15: each stored transaction's account_id is the account_id of a stored
\* account, and each stored account's user_id is the id of a stored user that
\* holds a token.
C15_ReferencesHold ==
    /\ \A t \in transactions : \E a \in accounts : a.account_id = t.account_id
    /\ \A a \in accounts :
          \E u \in users : u.id = a.user_id /\ u.plaid_token # Null

----------------------------------------------------------------------------
(* What the claims say of the order of the calls *)

\* the callbacks of analyzeAllTransactions whose completion call is under way
Classifying ==
    IF op.pc = "awaiting"
    THEN {i \in DOMAIN op.status : op.status[i] = "classifying"}
    ELSE {}

\* the classification calls in flight
InFlight == (IF fetch.pc = "analyze" THEN 1 ELSE 0) + Cardinality(Classifying)

\* C16: in fetchTransactions and in analyzeAllTransactions at most one
\* classification call is in flight at any moment, and the call for a
\* transaction starts only when the call and the write of the one before it
\* are over.
C16_OneAtATime ==
    /\ InFlight <= 1
    /\ op.pc = "awaiting" =>
          \A i, j \in DOMAIN op.status :
              (i < j /\ op.status[j] = "classifying") => op.status[i] = "done"

----------------------------------------------------------------------------
(* What the claims say of a failure in the middle of a run *)

\* the run got past accountsGet and asked for the transactions of an account
AskedForTransactions == observed.gate /\ observed.bankCalls >= 2

\* every account the bank listed has been dealt with
EveryAccountDone == fetch.account = Len(fetch.plaidAccounts) + 1

\* C17: in fetchTransactions a failed external call for one item (the bank's
\* transaction fetch for one account, the classification of one transaction)
\* touches that item only: the run goes on with the next account or
\* transaction, and the remaining items are fetched, classified and stored.
C17_OnlyThatItemFails ==
    /\ observed.failedAnalysis =>
          observed.addCalls + Remaining = observed.bankTransactions
    /\ (fetch.pc = "returned" /\ AskedForTransactions) =>
          /\ EveryAccountDone
          /\ fetch.result.success

\* C17 (amended): a failed classification touches its transaction only: the
\* run goes on, every account is dealt with and every transaction handed to
\* addTransaction.  A transaction fetch of the bank that throws ends the run:
\* it returns {success: false, error}, the account it failed for and those
\* after it are not fetched again or at all, and the transactions fetched
\* before it have all been handed to addTransaction.
C17_BankFailureEndsRun ==
    /\ (fetch.pc = "returned" /\ observed.failedAnalysis /\ ~observed.bankFailed) =>
          /\ EveryAccountDone
          /\ fetch.result.success
          /\ observed.addCalls = observed.bankTransactions
    /\ (fetch.pc = "returned" /\ AskedForTransactions /\ observed.bankFailed) =>
          /\ ~fetch.result.success
          /\ fetch.account <= Len(fetch.plaidAccounts)
          /\ observed.bankCalls = fetch.account + 1
          /\ observed.addCalls = observed.bankTransactions
    /\ fetch.pc \notin {"idle", "returned"} => ~observed.bankFailed

\* the fetch for the first of two accounts threw, after no other: the run
\* returned the failure and never asked for the second account
C17_Witness ==
    /\ fetch.pc = "returned"
    /\ observed.bankFailed
    /\ Len(fetch.plaidAccounts) = 2
    /\ fetch.account = 1
    /\ observed.bankCalls = 2
    /\ ~fetch.result.success
    /\ transactions = {}

\* what this step leaves of the stored accounts and transactions: every
\* account stays, with its user, and every transaction stays as it is
NothingRolledBack ==
    /\ \A a \in accounts :
          \E b \in accounts' : b.account_id = a.account_id /\ b.user_id = a.user_id
    /\ transactions \subseteq transactions'

\* C18: within one run of fetchTransactions no account and no transaction is
\* written more than once and no call is made again after it failed: each
\* round of a loop makes its calls once and the loop moves on.  No step of
\* the run takes back a row stored before, also not the step that ends the
\* run in failure, and the failure returned carries no count.
C18_AtMostOnceNoRollback ==
    [][fetch'.pc # "idle" =>
          /\ NothingRolledBack
          /\ fetch.pc = "storeAccounts" =>
                /\ observed'.addAccountCalls <= observed.addAccountCalls + 1
                /\ fetch'.pc = "transactionsGet" \/ fetch'.account = fetch.account + 1
          /\ fetch.pc = "transactionsGet" =>
                /\ observed'.bankCalls = observed.bankCalls + 1
                /\ fetch'.pc # "transactionsGet"
          /\ fetch.pc = "addTransaction" =>
                /\ observed'.addCalls = observed.addCalls + 1
                /\ fetch'.txn = fetch.txn + 1
          /\ fetch.pc = "updateAccount" => fetch'.account = fetch.account + 1
          /\ observed'.addAccountCalls <= Len(fetch'.plaidAccounts)
          /\ observed'.addCalls <= observed'.bankTransactions
          /\ observed'.bankCalls <= 1 + Len(fetch'.plaidAccounts)
          /\ (fetch'.pc = "returned" /\ ~fetch'.result.success) =>
                DOMAIN fetch'.result = {"success", "error"}]_vars

\* the fetch for the second account threw: the run returned the failure, and
\* the account and the transactions stored for the first account are there
C18_Witness ==
    /\ fetch.pc = "returned"
    /\ observed.bankFailed
    /\ fetch.account = 2
    /\ fetch.result = Failure("bank error")
    /\ \E a \in accounts : a.account_id = fetch.plaidAccounts[1]
    /\ Cardinality({t \in transactions : t.account_id = fetch.plaidAccounts[1]}) = 2

----------------------------------------------------------------------------
(* What the claims say of runs that follow one another *)

\* the classification fields of a row
VerdictOf(t) == <<t.is_deductible, t.deductible_reason, t.deduction_score>>

\* C19: over any sequence of fetchTransactions and analyzeAllTransactions
\* runs the classification fields of a stored transaction are written once: no
\* step changes the verdict a stored transaction carries.
C19_VerdictWrittenOnce ==
    [][\A t \in transactions :
          \E kept \in transactions' :
              /\ kept.trans_id = t.trans_id
              /\ kept.account_id = t.account_id
              /\ VerdictOf(kept) = VerdictOf(t)]_vars

\* an account of the user of the run with the id of this round is stored
Recorded ==
    \E a \in accounts :
        /\ a.user_id = fetch.userId
        /\ a.account_id = fetch.plaidAccounts[fetch.account]

\* this round of the account loop calls addAccount
AddAccountCalled == observed'.addAccountCalls = observed.addAccountCalls + 1

\* C20: in a round of the account loop addAccount is called exactly when no
\* stored account of the user has the account_id of the round, in whatever
\* run and also for an account the bank lists twice; so an account that is
\* recorded is not inserted again.
C20_AddedExactlyWhenAbsent ==
    [][fetch.pc = "storeAccounts" => (AddAccountCalled <=> ~Recorded)]_vars

----------------------------------------------------------------------------
(* The second fetchTransactions of the repository: the same gate, the same *)
(* two loops, no classification.                                           *)

\* the record built from a bank transaction, with the bank's merchant name as
\* it is, null or not; a null name is the empty string here, the two being
\* the same to a test for a non-empty name
PlainTransactionData(txn, accountId) ==
    [trans_id |-> txn.transaction_id,
     account_id |-> accountId,
     date |-> txn.date,
     amount |-> Abs(txn.amount),
     merchant_name |-> IF txn.merchant_name = Null THEN <<>> ELSE txn.merchant_name[1],
     category |-> OrElse(IF txn.category = Null THEN Null ELSE Some(Join(txn.category[1])),
                         Uncategorized)]

\* await plaidClient.transactionsGet for the account of this round
PlainTransactionsGet ==
    /\ fetch.pc = "transactionsGet"
    /\ \E resp \in TransactionsResponses :
          IF resp.status = "throws"
          THEN /\ fetch' = BankThrew(fetch)
               /\ observed' = [observed EXCEPT !.bankFailed = TRUE, !.bankCalls = @ + 1]
          ELSE /\ fetch' = [fetch EXCEPT !.transactions = resp.transactions,
                               !.request_id = resp.request_id, !.txn = 1,
                               !.pc = IF resp.transactions = <<>> THEN "updateAccount"
                                      ELSE "addTransaction"]
               /\ observed' = [observed EXCEPT
                                  !.bankTransactions = @ + Len(resp.transactions),
                                  !.bankCalls = @ + 1]
    /\ UNCHANGED <<parserVars, storageVars, op, runs, page, dash>>

\* one round of the inner loop: the record is built and handed to addTransaction
PlainAddTransaction ==
    /\ fetch.pc = "addTransaction"
    /\ \E ok \in BOOLEAN :
        \E data \in {PlainTransactionData(fetch.transactions[fetch.txn],
                                          fetch.plaidAccounts[fetch.account])} :
          /\ transactions' = addTransaction(data, ok)
          /\ observed' = [observed EXCEPT !.addCalls = @ + 1,
                                          !.storageFailed = @ \/ ~ok]
          /\ fetch' = [fetch EXCEPT
                          !.transactionData = data,
                          !.txn = @ + 1,
                          !.pc = IF fetch.txn = Len(fetch.transactions) THEN "updateAccount"
                                 ELSE "addTransaction"]
    /\ UNCHANGED <<parserVars, users, accounts, profiles, op, runs, page, dash>>

PlainNext ==
    \/ FetchStart
    \/ AccountsGet
    \/ StoreAccount
    \/ PlainTransactionsGet
    \/ PlainAddTransaction
    \/ UpdateAccount
    \/ FetchReturn

PlainSpec == Init /\ [][PlainNext]_vars

----------------------------------------------------------------------------
(* getUser, one client after the other, and the operations that write and  *)
(* read the access token.                                                  *)

NotQueried == [status |-> "none", data |-> Null, error |-> Null]

\* what from('users').select('*').eq('id', userId).single() may resolve to on
\* one client: the row, an error without data, and the two shapes the test of
\* the result tells apart besides (neither data nor error, both of them)
SingleResults(userId) ==
    LET rows == {r \in users : r.id = userId}
        QueryResult(data, error) == [status |-> "answered", data |-> data, error |-> error]
    IN  {QueryResult(Some(r), Null) : r \in rows}
          \cup {QueryResult(Null, Some(e)) : e \in {"PGRST116", "permission denied"}}
          \cup {QueryResult(Null, Null)}
          \cup {QueryResult(Some(r), Some("warning")) : r \in rows}

\* the server result is returned only when it holds a row
OnlyWithData(serverResult) == serverResult.data # Null

\* serverResult.data || !serverResult.error
ServerAnswers(serverResult) == serverResult.data # Null \/ serverResult.error = Null

\* getUser(userId) is called
GetUserStart ==
    /\ Quiet
    /\ \E userId \in UserIds :
          op' = [pc |-> "server", fn |-> "getUser", userId |-> userId,
                 result |-> NotQueried, storageCalls |-> 0,
                 serverResult |-> NotQueried, publicResult |-> NotQueried]
    /\ observed' = NothingObserved
    /\ UNCHANGED <<parserVars, storageVars, fetch, runs, page, dash>>

\* the try block: createServerClient, which may throw, and the query on it
ServerQuery ==
    /\ op.pc = "server"
    /\ \E serverResult \in {[NotQueried EXCEPT !.status = "threw"]}
                              \cup SingleResults(op.userId) :
          LET returns == serverResult.status = "answered" /\ ServerAnswers(serverResult)
          IN  op' = [op EXCEPT !.serverResult = serverResult,
                               !.storageCalls = IF serverResult.status = "threw" THEN @
                                                ELSE @ + 1,
                               !.result = IF returns THEN serverResult ELSE @,
                               !.pc = IF returns THEN "returned" ELSE "public"]
    /\ UNCHANGED <<parserVars, storageVars, fetch, observed, runs, page, dash>>

\* the fallback: the query on the client of the module, and its result returned
PublicQuery ==
    /\ op.pc = "public"
    /\ \E result \in SingleResults(op.userId) :
          op' = [op EXCEPT !.publicResult = result, !.storageCalls = @ + 1,
                           !.result = result, !.pc = "returned"]
    /\ UNCHANGED <<parserVars, storageVars, fetch, observed, runs, page, dash>>

\* the operations on the access token, one after the other: the two handlers
\* that store it, and getUser and fetchTransactions that read it
TokenNext ==
    \/ ExchangePublicToken
    \/ ExchangePublicTokenProfile
    \/ GetUserStart
    \/ ServerQuery
    \/ PublicQuery
    \/ FetchStart
    \/ AccountsGetFrom(ListedAccounts)
    \/ StoreAccount
    \/ TransactionsGetFrom(ListedTransactions)
    \/ AnalyzeTransaction
    \/ AddTransaction
    \/ UpdateAccount
    \/ FetchReturn
    \/ NextOperation

TokenSpec == Init /\ [][TokenNext]_vars

----------------------------------------------------------------------------
(* What the claims say of the sync cursor and of the stored record *)

\* the account of the round the run is in
CurrentAccount == fetch.plaidAccounts[fetch.account]

\* C21: a step of fetchTransactions changes the last_cursor of an account only
\* at the end of that account's round, when every transaction fetched for it
\* has been handed to addTransaction, and only to the request id the bank's
\* response carries; a run that ends because the fetch for an account threw
\* leaves that account without a cursor.
C21_CursorAfterTransactions ==
    [][/\ \A a \in accounts, b \in accounts' :
             (/\ b.account_id = a.account_id
              /\ b.user_id = a.user_id
              /\ b.last_cursor # a.last_cursor
              /\ b \notin accounts) =>
                 /\ fetch.pc = "updateAccount"
                 /\ a.account_id = CurrentAccount
                 /\ fetch.request_id # Null
                 /\ b.last_cursor = fetch.request_id
                 /\ fetch.txn = Len(fetch.transactions) + 1
                 /\ observed.addCalls = observed.bankTransactions
       /\ (fetch.pc = "transactionsGet" /\ fetch'.pc = "returned") =>
             \A b \in accounts' :
                 b.account_id = CurrentAccount => b.last_cursor = Null]_vars

\* the first account got its cursor after its two transactions were handed
\* over; the fetch for the second account threw, and that account is stored
\* without a cursor
C21_Witness ==
    /\ fetch.pc = "returned"
    /\ observed.bankFailed
    /\ fetch.account = 2
    /\ observed.addCalls = 2
    /\ \E a \in accounts :
          a.account_id = fetch.plaidAccounts[1] /\ a.last_cursor = Some("req-1")
    /\ \E b \in accounts :
          b.account_id = fetch.plaidAccounts[2] /\ b.last_cursor = Null

VerdictFields == {"is_deductible", "deductible_reason", "deduction_score"}

Normalised(data) ==
    /\ data.amount >= 0
    /\ data.merchant_name # <<>>
    /\ data.category # <<>>
    /\ VerdictFields \subseteq DOMAIN data

\* C22: every record fetchTransactions hands to addTransaction, and so every
\* record it stores, has an amount that is not negative, a merchant name and a
\* category that are not empty, and the three fields of a verdict.
C22_RecordNormalised ==
    /\ fetch.transactionData # NoData => Normalised(fetch.transactionData)
    /\ \A t \in transactions : Normalised(t)

----------------------------------------------------------------------------
(* What the claims say of getUser *)

GetUserCalled == op.fn = "getUser"

\* the server path threw, or gave an error and no data
ServerPathFailed ==
    \/ op.serverResult.status = "threw"
    \/ /\ op.serverResult.status = "answered"
       /\ op.serverResult.data = Null
       /\ op.serverResult.error # Null

\* C23: getUser asks the server-side client first and returns its result
\* whenever that holds a user row or carries no error, without asking the
\* public client; the public client is asked only after the server-side path
\* threw or gave an error and no data, and its result is then what getUser
\* returns.
C23_ServerThenPublic ==
    GetUserCalled =>
      /\ op.pc # "server" => op.serverResult # NotQueried
      /\ op.publicResult # NotQueried => ServerPathFailed
      /\ op.pc = "public" => ServerPathFailed
      /\ (op.pc = "returned" /\ ~ServerPathFailed) =>
             /\ op.result = op.serverResult
             /\ op.publicResult = NotQueried
             /\ op.storageCalls = 1
      /\ (op.pc = "returned" /\ ServerPathFailed) =>
             /\ op.publicResult # NotQueried
             /\ op.result = op.publicResult

\* the server-side client gave an error and no data, the public client the
\* row of the user, and that row is what getUser returned
C23_Witness ==
    /\ GetUserCalled
    /\ op.pc = "returned"
    /\ op.serverResult.status = "answered"
    /\ op.serverResult.data = Null
    /\ op.serverResult.error = Some("permission denied")
    /\ op.publicResult.data # Null
    /\ op.result = op.publicResult

----------------------------------------------------------------------------
(* What the claims say of the reason's first letter *)

\* the reason of the reply of call k as it stands before line 62: the second
\* group of the strict match, else the group of the fallback match, trimmed,
\* else the placeholder
Extracted(k) ==
    IF StrictMatch(Text(k)) # Null THEN trim(StrictMatch(Text(k))[2])
    ELSE IF ReasonMatch(Text(k)) # Null THEN trim(ReasonMatch(Text(k))[1])
    ELSE NoReasonProvided

\* C25: whenever the reason the parser returns is not empty, it is as long as
\* the reason extracted from the reply, its first character is the upper-case
\* form of the extracted reason's first character, and every other character
\* is the extracted one, on the strict path and on the fallback path.
C25_FirstLetterCapitalised ==
    \A k \in CallIds :
        (Replied(k) /\ Out(k).deductible_reason # <<>>) =>
            \E extracted \in {Extracted(k)} :
                /\ Len(Out(k).deductible_reason) = Len(extracted)
                /\ Out(k).deductible_reason[1] = toUpperCase(extracted[1])
                /\ \A i \in 2..Len(extracted) :
                       Out(k).deductible_reason[i] = extracted[i]

\* a reply off the strict format whose reason starts with a small letter and
\* has more letters after it
C25_Witness ==
    \E k \in CallIds :
        /\ Replied(k)
        /\ StrictMatch(Text(k)) = Null
        /\ ReasonMatch(Text(k)) # Null
        /\ Len(Extracted(k)) > 1
        /\ IsLower(Extracted(k)[1])
        /\ Out(k).deductible_reason[1] = toUpperCase(Extracted(k)[1])
        /\ Out(k).deductible_reason # Extracted(k)

----------------------------------------------------------------------------
(* What the claims say of the stored token *)

\* the handler of POST exchange-public-token answered with the access token
ExchangeSucceeded ==
    /\ op.pc = "returned"
    /\ op.fn \in PostRoutes
    /\ op.result.status = 200

\* C26: when POST exchange-public-token has answered with the access token,
\* that token is the plaid_token of the given user in users or in
\* user_profiles, and the user row getUser reads has a token, so that
\* fetchTransactions for this user gets past its token gate.
C26_TokenStoredOnSuccess ==
    ExchangeSucceeded =>
        /\ \/ \E r \in users :
                 r.id = op.userId /\ r.plaid_token = Some(op.result.body.access_token)
           \/ \E r \in profiles :
                 r.user_id = op.userId /\ r.plaid_token = Some(op.result.body.access_token)
        /\ ~NoPlaidToken(getUser(op.userId, TRUE).data)

----------------------------------------------------------------------------
(* What the claims say of analyzeAllTransactions *)

\* the callbacks of a run of analyzeAllTransactions
Callbacks == IF op.pc = "awaiting" THEN DOMAIN op.status ELSE {}

\* the call of updateTransaction of callback i returns in this step and has
\* written to the table
Wrote(i) ==
    /\ op.status[i] = "updating"
    /\ op'.status[i] = "done"
    /\ transactions' # transactions

\* C27: in analyzeAllTransactions the fields updateTransaction writes for a
\* transaction whose analysis succeeded are those of the parsed verdict:
\* is_deductible and deductible_reason as parsed, and deduction_score the
\* parsed score whenever that is not null, a parsed score of 0 included.
C27_WrittenVerdictIsParsed ==
    [][\A i \in Callbacks :
          Wrote(i) =>
             \A t \in transactions' :
                 t.trans_id = op.rows[i].trans_id =>
                    /\ t.is_deductible = op.analyses[i].is_deductible
                    /\ t.deductible_reason = op.analyses[i].deductible_reason
                    /\ op.analyses[i].deduction_score # Null =>
                           t.deduction_score = op.analyses[i].deduction_score]_vars

\* the transactions of the user as a query that works gives them
UserRows(userId) == getTransactions(userId, TRUE).data[1]

\* analyzeAllTransactions is called in this step
AnalyzeAllCalled == op.pc = "idle" /\ op'.fn = "analyzeAllTransactions"

\* the call returns 'No transactions found' and no callback was started
NothingClassified ==
    /\ op'.pc = "returned"
    /\ op'.result = Failure("No transactions found")
    /\ "status" \notin DOMAIN op'
    /\ lastIndex' = lastIndex

\* a callback has been started for each transaction of the user, once
EveryRowClassifying ==
    /\ op'.pc = "awaiting"
    /\ {op'.rows[i] : i \in DOMAIN op'.rows} = UserRows(op'.userId)
    /\ Len(op'.rows) = Cardinality(UserRows(op'.userId))
    /\ DOMAIN op'.status = DOMAIN op'.rows
    /\ \A i \in DOMAIN op'.status : op'.status[i] = "classifying"

\* a callback is classified once, goes on to updateTransaction exactly when
\* its analysis succeeded, and no other step of the run calls the storage
CallbacksInOrder ==
    /\ \A i \in Callbacks :
          /\ op.status[i] # "classifying" => op'.status[i] # "classifying"
          /\ (op.status[i] = "classifying" /\ op'.status[i] # "classifying") =>
                 op'.status[i] = IF op'.analyses[i].success THEN "updating" ELSE "done"
    /\ (op.pc = "awaiting" /\ op'.storageCalls # op.storageCalls) =>
          \E i \in Callbacks :
              /\ op.status[i] = "updating"
              /\ op'.status[i] = "done"
              /\ op.analyses[i].success
              /\ op'.storageCalls = op.storageCalls + 1

\* the run returns the two counts
CountsReturned ==
    (op.pc = "awaiting" /\ op'.pc = "returned") =>
        /\ \A i \in Callbacks : op.status[i] = "done"
        /\ op'.result.success
        /\ op'.result.total = Len(op.rows)
        /\ op'.result.analyzed =
              Cardinality({i \in Callbacks : op.analyses[i].success})
        /\ op'.storageCalls = 1 + op'.result.analyzed
        /\ 0 <= op'.result.analyzed /\ op'.result.analyzed <= op'.result.total

\* C28 as it was stated: analyzeAllTransactions returns 'No transactions
\* found' without a classification call when the user has no transactions;
\* otherwise it classifies every transaction exactly once, calls
\* updateTransaction only where the analysis succeeded, and returns total, the
\* number of transactions, and analyzed, the number of successful analyses.
C28_ClassifiesEveryTransaction ==
    [][/\ AnalyzeAllCalled =>
             IF UserRows(op'.userId) = {} THEN NothingClassified
             ELSE EveryRowClassifying
       /\ CallbacksInOrder
       /\ CountsReturned]_vars

\* C28, amended: analyzeAllTransactions returns 'No transactions found'
\* without a classification call when the user has no transactions or the
\* query for them fails; otherwise it classifies every transaction exactly
\* once, calls updateTransaction only where the analysis succeeded, and
\* returns total, the number of transactions, and analyzed, the number of
\* successful analyses, so 0 <= analyzed <= total.
C28_ClassifiesEveryRowFound ==
    [][/\ AnalyzeAllCalled =>
             IF UserRows(op'.userId) = {} \/ observed'.storageFailed
             THEN NothingClassified
             ELSE EveryRowClassifying
       /\ CallbacksInOrder
       /\ CountsReturned]_vars

\* two transactions, one analysis failed and one succeeded: one call of
\* updateTransaction, analyzed 1 of total 2
C28_Witness ==
    /\ op.fn = "analyzeAllTransactions"
    /\ op.pc = "returned"
    /\ op.result = [success |-> TRUE, analyzed |-> 1, total |-> 2]
    /\ op.storageCalls = 2

----------------------------------------------------------------------------
(* What the claims say of the list of the protected page *)

\* no two entries of the list have the same id
DistinctIds(list) ==
    \A i, j \in 1..Len(list) : list[i].id = list[j].id => i = j

\* the entries a save may bring
Saveable ==
    [id : {"1", "2", "1700", "r1", "undefined"}, description : {"a", "b"}]

\* list is prev with the entry of t's id replaced by t where it stood, or, if
\* prev has no such entry, prev with t added at the end
SavedInto(prev, list, t) ==
    IF \E i \in 1..Len(prev) : prev[i].id = t.id
    THEN /\ Len(list) = Len(prev)
         /\ \A i \in 1..Len(prev) :
               list[i] = IF prev[i].id = t.id THEN t ELSE prev[i]
    ELSE list = Append(prev, t)

\* C29: from a list with pairwise distinct ids every step of the page leaves
\* the ids pairwise distinct, and a step that changes the list is one save:
\* of an id already there, which replaces that entry where it stood and leaves
\* the length and the other entries as they were, or of a new id, which adds
\* exactly one entry at the end.
C29_IdsStayDistinct ==
    [][DistinctIds(page.transactions) =>
          /\ DistinctIds(page'.transactions)
          /\ page'.transactions # page.transactions =>
                \E t \in Saveable : SavedInto(page.transactions, page'.transactions, t)]_vars

\* the first entry was edited and saved where it stood, and an expense with
\* a new id and a receipt were added behind the entries the page started with
C29_Witness ==
    /\ Len(page.transactions) = 4
    /\ page.transactions[1] = [id |-> "1", description |-> "b"]
    /\ page.transactions[2] = [id |-> "2", description |-> "a"]
    /\ page.transactions[3].id = "1700"
    /\ page.transactions[4].id = "undefined"

----------------------------------------------------------------------------
(* What the claims say of the dashboard *)

\* the request of createLinkToken is answered in this step
CreationEnds == dash.creating /\ ~dash'.creating
\* the exchange of onPlaidSuccess is answered in this step
ExchangeEnds == dash.connecting = "exchanging" /\ dash'.connecting # "exchanging"
\* the ingestion of onPlaidSuccess is answered in this step
IngestionEnds == dash.connecting = "ingesting" /\ dash'.connecting = "idle"

\* the messages the component holds as literals
GenericMessages ==
    {"Failed to initialize bank connection. Please try again.",
     "Failed to connect bank account. Please try again."}

\* C24: when the creation of the link token or the exchange of the public
\* token fails, the banner shows one of the fixed messages of the component,
\* nothing of what the server answered; a shown banner can be dismissed, which
\* clears it; and a failed ingestion after a successful exchange shows no
\* banner and leaves the bank connected.
C24_GenericDismissibleBanner ==
    [][/\ (CreationEnds /\ ~dash'.answer.ok) =>
             dash'.plaidError =
                 Some("Failed to initialize bank connection. Please try again.")
       /\ (ExchangeEnds /\ ~dash'.answer.ok) =>
             dash'.plaidError =
                 Some("Failed to connect bank account. Please try again.")
       /\ dash'.plaidError # Null => dash'.plaidError[1] \in GenericMessages
       /\ dash.plaidError # Null => ENABLED Dismiss
       /\ Dismiss => dash'.plaidError = Null
       /\ (IngestionEnds /\ ~dash'.answer.ok) =>
             /\ dash'.plaidError = Null
             /\ dash'.bankConnected]_vars

\* C30: the step that ends a run of createLinkToken or of onPlaidSuccess
\* leaves plaidLoading false, whether the request succeeded or failed, and
\* every run that started comes to that end; bankConnected becomes true only
\* in the step in which the exchange is answered ok, a step that clears the
\* link token; and bankConnected, once true, stays true.
C30_LoadingEndsConnectedStays ==
    /\ [][/\ CreationEnds => ~dash'.plaidLoading
          /\ (dash.connecting # "idle" /\ dash'.connecting = "idle") => ~dash'.plaidLoading
          /\ (~dash.bankConnected /\ dash'.bankConnected) =>
                /\ ExchangeEnds
                /\ dash'.answer.ok
                /\ dash'.linkToken = Null
          /\ dash.bankConnected => dash'.bankConnected]_vars
    /\ dash.creating ~> (~dash.creating /\ ~dash.plaidLoading)
    /\ (dash.connecting # "idle") ~> (dash.connecting = "idle" /\ ~dash.plaidLoading)

\* the exchange was answered ok and the ingestion after it failed: the run is
\* over, nothing loads, the bank is connected and the link token gone
C30_Witness ==
    /\ dash.bankConnected
    /\ dash.linkToken = Null
    /\ ~dash.plaidLoading
    /\ dash.connecting = "idle"
    /\ dash.answer.text = "Failed to fetch transactions"
    /\ ~dash.answer.ok

====
